---- MODULE Spec2Model ----
(***************************************************************************)
(* Job aggregation pipeline of supabase/functions/scrape-jobs/index.ts:    *)
(* Source Clients (fetchGreenhouseJobs, fetchWorkableJobs), the batched    *)
(* fan-out of the serve handler, URL deduplication, calculateScore and     *)
(* mixJobsByTier.                                                          *)
(*                                                                         *)
(* Strings are sequences of one-character strings, so that toLowerCase()   *)
(* and includes() are computed and not assumed.  A timestamp is the pair   *)
(* [valid, ms]: new Date(s).getTime() is a number of milliseconds or NaN,  *)
(* and every comparison with NaN is false.                                 *)
(***************************************************************************)
EXTENDS Integers, Sequences, FiniteSets, TLC

\* ------------------------------------------------------------------ bounds
\* Number of clock steps of one hour the model lets pass.
MaxTicks == 1
\* Longest keyword list the scorer is tried on (7 matches reach the +30 cap).
MaxKw == 7

\* ------------------------------------------------------- program constants
\* 3600000 in calculateScore: one hour, in milliseconds.
HourMs == 3600000
\* 86400000 in calculateScore, 24 * 60 * 60 * 1000 in mixJobsByTier.
DayMs == 86400000
\* 60000 in getTimeDelta: one minute, in milliseconds.
MinuteMs == 60000

\* The model's clock starts here; every timestamp below is relative to it.
StartTime == DayMs + HourMs

\* ------------------------------------------------------------- JS strings
UpperCase == <<"A","B","C","D","E","F","G","H","I","J","K","L","M",
               "N","O","P","Q","R","S","T","U","V","W","X","Y","Z">>
LowerCase == <<"a","b","c","d","e","f","g","h","i","j","k","l","m",
               "n","o","p","q","r","s","t","u","v","w","x","y","z">>

\* String.prototype.toLowerCase on one character.
LowerChar(c) ==
  IF \E i \in 1..Len(UpperCase) : UpperCase[i] = c
    THEN LowerCase[CHOOSE i \in 1..Len(UpperCase) : UpperCase[i] = c]
    ELSE c

\* String.prototype.toLowerCase.
ToLowerCase(s) == [i \in 1..Len(s) |-> LowerChar(s[i])]

\* String.prototype.includes: needle occurs in hay as a substring.
Includes(hay, needle) ==
  \E i \in 0..(Len(hay) - Len(needle)) :
     SubSeq(hay, i + 1, i + Len(needle)) = needle

\* Array.prototype.join(' ').
RECURSIVE JoinSpace(_)
JoinSpace(strs) ==
  IF Len(strs) = 0 THEN <<>>
  ELSE IF Len(strs) = 1 THEN strs[1]
  ELSE strs[1] \o <<" ">> \o JoinSpace(Tail(strs))

\* Array.prototype.filter, keeping the order.
RECURSIVE SelectSeqIdx(_, _, _)
SelectSeqIdx(s, keep, i) ==
  IF i > Len(s) THEN <<>>
  ELSE (IF i \in keep THEN <<s[i]>> ELSE <<>>) \o SelectSeqIdx(s, keep, i + 1)

\* Array.prototype.slice(0, n) for n >= 0.
Take(s, n) == SubSeq(s, 1, IF n < Len(s) THEN n ELSE Len(s))

\* ------------------------------------------------------------- timestamps
NaN == [valid |-> FALSE, ms |-> 0]
Time(t) == [valid |-> TRUE, ms |-> t]

\* new Date(posted_at).getTime(): the milliseconds, or NaN when unparsable.
GetTime(posted_at) == IF posted_at.valid THEN posted_at ELSE NaN

\* a - b on JS numbers.
NumSub(a, b) == IF a.valid /\ b.valid THEN Time(a.ms - b.ms) ELSE NaN
\* a < b, a > b, a <= b on JS numbers: false when either side is NaN.
NumLt(a, b) == a.valid /\ b.valid /\ a.ms < b.ms
NumGt(a, b) == a.valid /\ b.valid /\ a.ms > b.ms
NumLe(a, b) == a.valid /\ b.valid /\ a.ms <= b.ms

\* -------------------------------------------------------- vocabulary data
techKeywords ==
  << <<"P", "y", "t", "h", "o", "n">>,
     <<"J", "a", "v", "a">>,
     <<"T", "y", "p", "e", "S", "c", "r", "i", "p", "t">>,
     <<"J", "a", "v", "a", "S", "c", "r", "i", "p", "t">>,
     <<"R", "e", "a", "c", "t">>,
     <<"N", "o", "d", "e", ".", "j", "s">>,
     <<"A", "W", "S">>,
     <<"G", "C", "P">>,
     <<"A", "z", "u", "r", "e">>,
     <<"K", "u", "b", "e", "r", "n", "e", "t", "e", "s">>,
     <<"D", "o", "c", "k", "e", "r">>,
     <<"P", "o", "s", "t", "g", "r", "e", "S", "Q", "L">>,
     <<"M", "o", "n", "g", "o", "D", "B">>,
     <<"R", "e", "d", "i", "s">>,
     <<"K", "a", "f", "k", "a">>,
     <<"G", "r", "a", "p", "h", "Q", "L">>,
     <<"M", "a", "c", "h", "i", "n", "e", " ", "L", "e", "a", "r", "n", "i", "n", "g">>,
     <<"D", "e", "e", "p", " ", "L", "e", "a", "r", "n", "i", "n", "g">>,
     <<"T", "e", "n", "s", "o", "r", "F", "l", "o", "w">>,
     <<"P", "y", "T", "o", "r", "c", "h">>,
     <<"G", "o">>,
     <<"R", "u", "s", "t">>,
     <<"C", "+", "+">>,
     <<"S", "Q", "L">>,
     <<"N", "o", "S", "Q", "L">>,
     <<"R", "E", "S", "T", " ", "A", "P", "I">>,
     <<"M", "i", "c", "r", "o", "s", "e", "r", "v", "i", "c", "e", "s">>,
     <<"C", "I", "/", "C", "D">>,
     <<"T", "e", "r", "r", "a", "f", "o", "r", "m">>,
     <<"L", "i", "n", "u", "x">>,
     <<"S", "p", "a", "r", "k">>,
     <<"A", "i", "r", "f", "l", "o", "w">>,
     <<"d", "b", "t">>,
     <<"S", "n", "o", "w", "f", "l", "a", "k", "e">>,
     <<"B", "i", "g", "Q", "u", "e", "r", "y">>,
     <<"D", "a", "t", "a", "b", "r", "i", "c", "k", "s">>,
     <<"M", "L", "O", "p", "s">> >>

JOB_KEYWORDS ==
  << <<"A", "I">>,
     <<"M", "L">>,
     <<"M", "a", "c", "h", "i", "n", "e", " ", "L", "e", "a", "r", "n", "i", "n", "g">>,
     <<"D", "e", "e", "p", " ", "L", "e", "a", "r", "n", "i", "n", "g">>,
     <<"N", "L", "P">>,
     <<"L", "L", "M">>,
     <<"G", "e", "n", "A", "I">>,
     <<"C", "l", "o", "u", "d", " ", "E", "n", "g", "i", "n", "e", "e", "r">>,
     <<"C", "l", "o", "u", "d", " ", "A", "r", "c", "h", "i", "t", "e", "c", "t">>,
     <<"A", "W", "S">>,
     <<"A", "z", "u", "r", "e">>,
     <<"G", "C", "P">>,
     <<"P", "y", "t", "h", "o", "n">>,
     <<"D", "e", "v", "O", "p", "s">>,
     <<"S", "R", "E">>,
     <<"S", "i", "t", "e", " ", "R", "e", "l", "i", "a", "b", "i", "l", "i", "t", "y">>,
     <<"D", "a", "t", "a", " ", "S", "c", "i", "e", "n", "t", "i", "s", "t">>,
     <<"D", "a", "t", "a", " ", "E", "n", "g", "i", "n", "e", "e", "r">>,
     <<"D", "a", "t", "a", " ", "A", "n", "a", "l", "y", "t", "i", "c", "s">>,
     <<"S", "o", "f", "t", "w", "a", "r", "e", " ", "E", "n", "g", "i", "n", "e", "e", "r">>,
     <<"B", "a", "c", "k", "e", "n", "d">>,
     <<"F", "u", "l", "l", " ", "S", "t", "a", "c", "k">>,
     <<"F", "r", "o", "n", "t", "e", "n", "d">>,
     <<"K", "u", "b", "e", "r", "n", "e", "t", "e", "s">>,
     <<"D", "o", "c", "k", "e", "r">>,
     <<"T", "e", "r", "r", "a", "f", "o", "r", "m">>,
     <<"I", "n", "f", "r", "a", "s", "t", "r", "u", "c", "t", "u", "r", "e">> >>

TARGET_LOCATIONS ==
  << <<"D", "u", "b", "l", "i", "n">>,
     <<"I", "r", "e", "l", "a", "n", "d">>,
     <<"R", "e", "m", "o", "t", "e">>,
     <<"E", "M", "E", "A">>,
     <<"E", "u", "r", "o", "p", "e">>,
     <<"U", "n", "i", "t", "e", "d", " ", "K", "i", "n", "g", "d", "o", "m">>,
     <<"L", "o", "n", "d", "o", "n">>,
     <<"G", "e", "r", "m", "a", "n", "y">>,
     <<"N", "e", "t", "h", "e", "r", "l", "a", "n", "d", "s">>,
     <<"U", "n", "i", "t", "e", "d", " ", "S", "t", "a", "t", "e", "s">>,
     <<"N", "e", "w", " ", "Y", "o", "r", "k">>,
     <<"S", "a", "n", " ", "F", "r", "a", "n", "c", "i", "s", "c", "o">>,
     <<"S", "e", "a", "t", "t", "l", "e">> >>

\* A priority list without 'remote'.
priorityLocsNoRemote ==
  << <<"d", "u", "b", "l", "i", "n">>,
     <<"i", "r", "e", "l", "a", "n", "d">> >>

priorityLocs ==
  << <<"d", "u", "b", "l", "i", "n">>,
     <<"i", "r", "e", "l", "a", "n", "d">>,
     <<"r", "e", "m", "o", "t", "e">> >>

\* ------------------------------------------------------- helper functions
\* extractRequirements: the vocabulary entries found in the content,
\* in vocabulary order, at most 8 of them.
extractRequirements(content) ==
  LET lc == ToLowerCase(content)
      hit == {i \in 1..Len(techKeywords) : Includes(lc, ToLowerCase(techKeywords[i]))}
  IN  Take(SelectSeqIdx(techKeywords, hit, 1), 8)

\* A getTimeDelta whose day bucket starts after 24 full hours are exceeded.
getTimeDeltaLateDay(posted_at, clock) ==
  LET diffMs == NumSub(Time(clock), GetTime(posted_at))
      minutes == diffMs.ms \div MinuteMs
      hours == minutes \div 60
      days == hours \div 24
  IN  IF ~diffMs.valid THEN [n |-> "NaN", unit |-> "w ago"]
      ELSE IF minutes < 60 THEN [n |-> minutes, unit |-> " min ago"]
      ELSE IF hours <= 24 THEN [n |-> hours, unit |-> "h ago"]
      ELSE IF days < 7 THEN [n |-> days, unit |-> "d ago"]
      ELSE [n |-> days \div 7, unit |-> "w ago"]

\* getTimeDelta: the number and the unit of the "N unit ago" string;
\* template strings print NaN as "NaN".
getTimeDelta(posted_at, clock) ==
  LET diffMs == NumSub(Time(clock), GetTime(posted_at))
      minutes == diffMs.ms \div MinuteMs
      hours == minutes \div 60
      days == hours \div 24
  IN  IF ~diffMs.valid THEN [n |-> "NaN", unit |-> "w ago"]
      ELSE IF minutes < 60 THEN [n |-> minutes, unit |-> " min ago"]
      ELSE IF hours < 24 THEN [n |-> hours, unit |-> "h ago"]
      ELSE IF days < 7 THEN [n |-> days, unit |-> "d ago"]
      ELSE [n |-> days \div 7, unit |-> "w ago"]

\* getTimeDelta of the feed service: 'Recently' for a missing date string.
getTimeDeltaFeed(dateStr, clock) ==
  IF dateStr = [valid |-> FALSE, ms |-> 0 - 1]
    THEN [n |-> "", unit |-> "Recently"]
    ELSE getTimeDelta(dateStr, clock)

\* The keyword loop of calculateScore: +5 per non-empty keyword found.
RECURSIVE keywordScore(_, _)
keywordScore(jobText, keywords) ==
  IF Len(keywords) = 0 THEN 0
  ELSE (IF Head(keywords) # <<>> /\ Includes(jobText, ToLowerCase(Head(keywords)))
          THEN 5 ELSE 0)
       + keywordScore(jobText, Tail(keywords))

Min(a, b) == IF a < b THEN a ELSE b

\* A tier bonus with the boni of tier 1 and tier 2 exchanged.
tierBonusSwapped(company_tier) ==
  IF company_tier = 1 THEN 10 ELSE IF company_tier = 2 THEN 20 ELSE 5

\* job.company_tier === 1 ? 20 : job.company_tier === 2 ? 10 : 5
tierBonus(company_tier) ==
  IF company_tier = 1 THEN 20 ELSE IF company_tier = 2 THEN 10 ELSE 5

\* A final step that forgets the clamp.
clampScoreOff(score) == score

\* return Math.min(100, score)
clampScore(score) == Min(100, score)

\* calculateScore, with Date.now() passed as clock.
calculateScore(job, keywords, locations, clock) ==
  LET jobText == ToLowerCase(job.title \o <<" ">> \o job.snippet \o <<" ">>
                             \o JoinSpace(job.requirements))
      jobLoc == ToLowerCase(job.location)
      s1 == 50 + tierBonus(job.company_tier)
      s2 == s1 + Min(30, keywordScore(jobText, keywords))
      s3 == IF \E i \in 1..Len(priorityLocs) : Includes(jobLoc, priorityLocs[i])
              THEN s2 + 15
            ELSE IF \E i \in 1..Len(locations) :
                       Includes(jobLoc, ToLowerCase(locations[i]))
              THEN s2 + 5
            ELSE s2
      postedMs == NumSub(Time(clock), GetTime(job.posted_at))
      s4 == IF NumLt(postedMs, Time(HourMs)) THEN s3 + 10
            ELSE IF NumLt(postedMs, Time(DayMs)) THEN s3 + 5
            ELSE s3
  IN  clampScore(s4)

byScoreAsc(a, b) == a.match_score < b.match_score
\* (a, b) => b.match_score - a.match_score
byScoreDesc(a, b) == a.match_score > b.match_score

\* (a, b) => getTime(b.posted_at) - getTime(a.posted_at)
byPostedDesc(a, b) == NumGt(GetTime(a.posted_at), GetTime(b.posted_at))

\* live-jobs-feed: (a, b) => a.company_tier - b.company_tier, and for one
\* tier getTime(b.created_at) - getTime(a.created_at)
byTierThenNewest(a, b) ==
  IF a.company_tier # b.company_tier THEN a.company_tier < b.company_tier
  ELSE NumGt(GetTime(a.created_at), GetTime(b.created_at))

\* The comparator named cmp puts a before b.
Before(cmp, a, b) ==
  IF cmp = "score" THEN byScoreDesc(a, b)
  ELSE IF cmp = "posted" THEN byPostedDesc(a, b)
  ELSE byTierThenNewest(a, b)

\* Array.prototype.sort with the comparator named cmp: a stable insertion
\* sort (the runtime's sort is stable).
RECURSIVE InsertSorted(_, _, _)
InsertSorted(sorted, x, cmp) ==
  IF Len(sorted) = 0 THEN <<x>>
  ELSE IF Before(cmp, x, Head(sorted)) THEN <<x>> \o sorted
  ELSE <<Head(sorted)>> \o InsertSorted(Tail(sorted), x, cmp)

RECURSIVE StableSort(_, _)
StableSort(s, cmp) ==
  IF Len(s) = 0 THEN <<>>
  ELSE InsertSorted(StableSort(SubSeq(s, 1, Len(s) - 1), cmp), s[Len(s)], cmp)

\* jobs.filter(j => j.company_tier === t)
tierJobs(jobs, t) ==
  SelectSeqIdx(jobs, {i \in 1..Len(jobs) : jobs[i].company_tier = t}, 1)

\* ---------------------------------------------------- double arithmetic
\* totalJobs * 0.7 is a product of IEEE-754 doubles: the exact product,
\* rounded to a 53-bit significand (ties to even).  The exact product needs
\* more than 32 bits, so it is a little-endian sequence of hexadecimal
\* digits here.

\* The double nearest to 0.7 is 0x16666666666666 * 2^-53; the doubles
\* nearest to 0.2 and 0.1 are 0x1999999999999A * 2^-55 and * 2^-56.
Point7 == [sig |-> <<6, 6, 6, 6, 6, 6, 6, 6, 6, 6, 6, 6, 6, 1>>, exp |-> 53]
Point2 == [sig |-> <<10, 9, 9, 9, 9, 9, 9, 9, 9, 9, 9, 9, 9, 1>>, exp |-> 55]
Point1 == [sig |-> Point2.sig, exp |-> 56]

\* n * digits + carry, for n >= 1.
RECURSIVE MulDigits(_, _, _)
MulDigits(n, digits, carry) ==
  IF digits = <<>>
    THEN IF carry = 0 THEN <<>>
         ELSE <<carry % 16>> \o MulDigits(n, <<>>, carry \div 16)
    ELSE <<(n * digits[1] + carry) % 16>>
         \o MulDigits(n, Tail(digits), (n * digits[1] + carry) \div 16)

\* Bit i of p, bit 0 being the lowest, and the number of bits of p.
BitAt(p, i) == (p[(i \div 4) + 1] \div (2 ^ (i % 4))) % 2
BitLen(p) ==
  4 * (Len(p) - 1)
  + (IF p[Len(p)] >= 8 THEN 4 ELSE IF p[Len(p)] >= 4 THEN 3
     ELSE IF p[Len(p)] >= 2 THEN 2 ELSE 1)

\* p shifted right by i bits.
RECURSIVE ShiftRight(_, _)
ShiftRight(p, i) ==
  IF i >= BitLen(p) THEN 0 ELSE BitAt(p, i) + 2 * ShiftRight(p, i + 1)

\* Math.floor(n * c) for an integer n >= 0 and the double c = sig * 2^-exp.
\* The product p * 2^-exp loses its d lowest bits to the rounding; rounding
\* up reaches the next integer exactly when all the fraction bits it keeps
\* are ones.
MulFloor(n, c) ==
  IF n = 0 THEN 0
  ELSE LET p == MulDigits(n, c.sig, 0)
           d == BitLen(p) - 53
           roundsUp == /\ d > 0
                       /\ BitAt(p, d - 1) = 1
                       /\ (BitAt(p, d) = 1 \/ \E i \in 0..(d - 2) : BitAt(p, i) = 1)
           carries == roundsUp /\ \A i \in d..(c.exp - 1) : BitAt(p, i) = 1
       IN  ShiftRight(p, c.exp) + (IF carries THEN 1 ELSE 0)

\* A tier-1 quota rounded up.
tier1CountUp(totalJobs) == MulFloor(totalJobs, Point7) + 1
\* Math.floor(totalJobs * 0.7), * 0.2, * 0.1.
tier1Count(totalJobs) == MulFloor(totalJobs, Point7)
tier2Count(totalJobs) == MulFloor(totalJobs, Point2)
tier3Count(totalJobs) == MulFloor(totalJobs, Point1)

\* The tier-priority mix, before the recency split.
mixed(jobs) ==
  Take(StableSort(tierJobs(jobs, 1), "score"), tier1Count(Len(jobs)))
  \o Take(StableSort(tierJobs(jobs, 2), "score"), tier2Count(Len(jobs)))
  \o Take(StableSort(tierJobs(jobs, 3), "score"), tier3Count(Len(jobs)))

\* mixJobsByTier, with Date.now() passed as clock.
mixJobsByTier(jobs, clock) ==
  LET m == mixed(jobs)
      recentCutoff == Time(clock - DayMs)
      recentJobs == SelectSeqIdx(m,
          {i \in 1..Len(m) : NumGt(GetTime(m[i].posted_at), recentCutoff)}, 1)
      olderJobs == SelectSeqIdx(m,
          {i \in 1..Len(m) : NumLe(GetTime(m[i].posted_at), recentCutoff)}, 1)
  IN  StableSort(recentJobs, "posted") \o olderJobs

\* Array.prototype.slice(start, end), negative indices counted from the end.
JsSlice(s, start, end) ==
  LET len == Len(s)
      k == IF start < 0 THEN (IF len + start > 0 THEN len + start ELSE 0)
           ELSE Min(start, len)
      final == IF end < 0 THEN (IF len + end > 0 THEN len + end ELSE 0)
               ELSE Min(end, len)
  IN  IF k < final THEN SubSeq(s, k + 1, final) ELSE <<>>

\* ------------------------------------------------------------- stripHtml
IsSpace(c) == c \in {" ", "\n", "\t"}

\* html.replace(/<[^>]*>/g, ' ')
RECURSIVE StripTags(_)
StripTags(html) ==
  IF Len(html) = 0 THEN <<>>
  ELSE IF Head(html) = "<" /\ \E j \in 2..Len(html) : html[j] = ">"
    THEN LET j == CHOOSE j \in 2..Len(html) :
                    /\ html[j] = ">"
                    /\ \A k \in 2..(j - 1) : html[k] # ">"
         IN  <<" ">> \o StripTags(SubSeq(html, j + 1, Len(html)))
  ELSE <<Head(html)>> \o StripTags(Tail(html))

\* .replace(/\s+/g, ' ')
RECURSIVE CollapseSpace(_)
CollapseSpace(s) ==
  IF Len(s) = 0 THEN <<>>
  ELSE IF IsSpace(Head(s))
    THEN IF Len(s) > 1 /\ IsSpace(s[2]) THEN CollapseSpace(Tail(s))
         ELSE <<" ">> \o CollapseSpace(Tail(s))
  ELSE <<Head(s)>> \o CollapseSpace(Tail(s))

\* .trim()
RECURSIVE Trim(_)
Trim(s) ==
  IF Len(s) = 0 THEN s
  ELSE IF IsSpace(Head(s)) THEN Trim(Tail(s))
  ELSE IF IsSpace(s[Len(s)]) THEN Trim(SubSeq(s, 1, Len(s) - 1))
  ELSE s

stripHtml(html) == Trim(CollapseSpace(StripTags(html)))

\* ------------------------------------------------------- model bounds
\* Number of configured sources (the three company lists, concatenated).
NumSources == 4
\* const batchSize = 10, scaled down so that a pass has more than one batch.
batchSize == 2

\* ------------------------------------------------------ source catalogue
\* JSON undefined and a JSON number where a string is expected.
Undefined == <<"#undefined">>
NonString == <<"#number">>
\* A missing date field (distinct from an unparsable one).
NoDate == [valid |-> FALSE, ms |-> 0 - 1]
Num(n) == [valid |-> TRUE, ms |-> n]

\* The k-th entry of the fan-out list: TIER_1_COMPANIES.greenhouse, then
\* TIER_2_COMPANIES.greenhouse, then TIER_3_COMPANIES.workable.
sourceOf(k) ==
  IF k = 1 THEN [name |-> "Stripe", style |-> "greenhouse", token |-> "stripe", tier |-> 1]
  ELSE IF k = 2 THEN [name |-> "Accenture", style |-> "greenhouse", token |-> "accenture", tier |-> 2]
  ELSE IF k = 3 THEN [name |-> "Revolut", style |-> "workable", token |-> "revolut", tier |-> 3]
  ELSE [name |-> "Wise", style |-> "workable", token |-> "transferwise", tier |-> 3]

\* Raw Greenhouse entries; "" and <<>> stand for an absent or empty field.
ghA == [id |-> "1", title |-> <<"A", "I", " ", "d", "e", "v">>, locationName |-> <<"R", "e", "m", "o", "t", "e">>,
        absolute_url |-> "u1", updated_at |-> Time(StartTime - 1),
        content |-> <<"<", "p", ">", "P", "y", "t", "h", "o", "n", "<", "/", "p", ">", " ", " ", "A", "W", "S">>]
ghB == [id |-> "2", title |-> <<>>, locationName |-> <<>>,
        absolute_url |-> "", updated_at |-> NoDate, content |-> <<>>]
ghC == [id |-> "3", title |-> <<"S", "R", "E">>, locationName |-> NonString,
        absolute_url |-> "u3", updated_at |-> Time(0), content |-> <<>>]
ghD == [id |-> "7", title |-> <<"M", "L", " ", "d", "e", "v">>, locationName |-> <<"B", "e", "r", "l", "i", "n">>,
        absolute_url |-> "u1", updated_at |-> NaN, content |-> <<"R", "u", "s", "t">>]
ghE == [id |-> "8", title |-> <<"B", "a", "c", "k", "e", "n", "d">>, locationName |-> <<"D", "u", "b", "l", "i", "n">>,
        absolute_url |-> "u2", updated_at |-> Time(StartTime - DayMs),
        content |-> <<"D", "o", "c", "k", "e", "r">>]
\* Raw Workable entries.
wkA == [shortcode |-> "A", title |-> <<"D", "a", "t", "a", " ", "E", "n", "g", "i", "n", "e", "e", "r">>, city |-> <<>>,
        country |-> <<"I", "r", "e", "l", "a", "n", "d">>, published |-> Time(StartTime - 1),
        description |-> <<"S", "Q", "L">>]
wkB == [shortcode |-> "B", title |-> <<>>, city |-> <<"P", "a", "r", "i", "s">>,
        country |-> <<>>, published |-> NoDate, description |-> <<>>]

\* What response.json() can deliver for source k: a well-shaped body, or
\* a body the client cannot decode (json() rejects, the list field is not
\* a list, an entry is null).
Payloads(k) ==
  IF k = 1 THEN { [shape |-> "ok", jobs |-> <<ghA, ghB>>],
                  [shape |-> "ok", jobs |-> <<ghC>>],
                  [shape |-> "listNotArray", jobs |-> <<>>] }
  ELSE IF k = 2 THEN { [shape |-> "ok", jobs |-> <<ghD, ghE>>],
                       [shape |-> "invalidJson", jobs |-> <<>>] }
  ELSE { [shape |-> "ok", jobs |-> <<wkA, wkB, wkA>>],
         [shape |-> "nullEntry", jobs |-> <<>>] }

\* A body is malformed when it does not have the shape of the Source API:
\* it cannot be decoded, or a field holds a value of the wrong JSON type.
Malformed(data) ==
  \/ data.shape # "ok"
  \/ \E i \in 1..Len(data.jobs) :
        "locationName" \in DOMAIN data.jobs[i] /\ data.jobs[i].locationName = NonString

\* Request bodies of the trigger endpoint.
Requests ==
  { [keywords |-> Undefined, locations |-> Undefined, limit |-> NaN, offset |-> NaN],
    [keywords |-> <<"A", "i", ",", " ", ",", "p", "y", "t", "h", "o", "n", ",", ",", "r", "u", "s", "t">>, locations |-> <<" ", "b", "e", "r", "l", "i", "n", ",", "P", "A", "R", "I", "S">>, limit |-> Num(2), offset |-> Num(1)] }

VARIABLES now, pc, nsrc, req, src, batchStart, allJobs, uniqueJobs, response,
          outOfOrder, authHeader, stored, saved, sjob, skeywords, slocations, sscore, sdone,
          mjobs, mmixed, mcutoff, mout, mdone,
          variant, table, nchanges, freq, failed, fresp, changed, repeated,
          seen, stale,
          saver, jobsTable, overlapped, faulted,
          tposted, tfeed, tclock, tdelta, tdone,
          hvariant, hserver, hused, hevents, hflight, hjobs, hstats, hchanges,
          bulkApplyState, bprocs, btimers, bstarting, bruns, bsent

saveVars == <<authHeader, stored, saved>>
aggVars == <<pc, nsrc, req, src, batchStart, allJobs, uniqueJobs, response,
             outOfOrder, saveVars>>
scoreVars == <<sjob, skeywords, slocations, sscore, sdone>>
mixVars == <<mjobs, mmixed, mcutoff, mout, mdone>>
feedVars == <<variant, table, nchanges, freq, failed, fresp, changed, repeated,
              seen, stale>>
persistVars == <<saver, jobsTable, overlapped, faulted>>
deltaVars == <<tposted, tfeed, tclock, tdelta, tdone>>
hookVars == <<hvariant, hserver, hused, hevents, hflight, hjobs, hstats,
              hchanges>>
bulkVars == <<bulkApplyState, bprocs, btimers, bstarting, bruns, bsent>>
extraVars == <<persistVars, deltaVars, hookVars, bulkVars>>
harnessVars == <<scoreVars, mixVars, feedVars, extraVars>>
vars == <<now, aggVars, harnessVars>>

\* ------------------------------------------------------------ the clients
\* catch (error) { return []; } - also the early return on !response.ok.
emptyResult == [st |-> "fulfilled", value |-> <<>>]

\* The mapper of fetchGreenhouseJobs: (data.jobs || []).slice(0, 50).map(..)
greenhouseListing(company, job, clock) ==
  LET postedAt == IF job.updated_at = NoDate THEN Time(clock) ELSE job.updated_at
  IN  [ id |-> <<"gh_", company.token, "_", job.id>>,
        title |-> IF job.title = <<>> THEN <<"U", "n", "k", "n", "o", "w", "n", " ", "P", "o", "s", "i", "t", "i", "o", "n">>
                  ELSE job.title,
        company |-> company.name,
        company_tier |-> company.tier,
        location |-> IF job.locationName = <<>> THEN <<"R", "e", "m", "o", "t", "e">>
                     ELSE job.locationName,
        url |-> IF job.absolute_url # "" THEN <<job.absolute_url>>
                ELSE <<"https://boards.greenhouse.io/", company.token, "/jobs/", job.id>>,
        posted_at |-> postedAt,
        posted_delta |-> getTimeDelta(postedAt, clock),
        snippet |-> IF job.content # <<>> THEN Take(stripHtml(job.content), 300) ELSE <<>>,
        requirements |-> extractRequirements(job.content),
        source |-> "greenhouse",
        match_score |-> 0 ]

\* The mapper of fetchWorkableJobs: (data.results || []).slice(0, 30).map(..)
workableListing(company, job, clock) ==
  LET postedAt == IF job.published = NoDate THEN Time(clock) ELSE job.published
  IN  [ id |-> <<"wk_", company.token, "_", job.shortcode>>,
        title |-> IF job.title = <<>> THEN <<"U", "n", "k", "n", "o", "w", "n", " ", "P", "o", "s", "i", "t", "i", "o", "n">>
                  ELSE job.title,
        company |-> company.name,
        company_tier |-> company.tier,
        location |-> IF job.city # <<>> THEN job.city
                     ELSE IF job.country # <<>> THEN job.country
                     ELSE <<"R", "e", "m", "o", "t", "e">>,
        url |-> <<"https://apply.workable.com/", company.token, "/j/", job.shortcode, "/">>,
        posted_at |-> postedAt,
        posted_delta |-> getTimeDelta(postedAt, clock),
        snippet |-> job.description,
        requirements |-> extractRequirements(job.description),
        source |-> "workable",
        match_score |-> 0 ]

\* What a client resolves to once response.json() has settled with data:
\* the mapped entries, or the catch block's empty list when decoding or
\* mapping throws.
fetchGreenhouseJobs(company, data, clock) ==
  IF data.shape # "ok" THEN emptyResult
  ELSE [st |-> "fulfilled",
        value |-> [i \in 1..Len(Take(data.jobs, 50)) |->
                     greenhouseListing(company, data.jobs[i], clock)]]

fetchWorkableJobs(company, data, clock) ==
  IF data.shape # "ok" THEN emptyResult
  ELSE [st |-> "fulfilled",
        value |-> [i \in 1..Len(Take(data.jobs, 30)) |->
                     workableListing(company, data.jobs[i], clock)]]

fetchJobs(k, data, clock) ==
  IF sourceOf(k).style = "greenhouse"
    THEN fetchGreenhouseJobs(sourceOf(k), data, clock)
    ELSE fetchWorkableJobs(sourceOf(k), data, clock)

\* -------------------------------------------------------- request parsing
\* String.prototype.split(',')
RECURSIVE SplitComma(_)
SplitComma(s) ==
  IF \E i \in 1..Len(s) : s[i] = ","
    THEN LET i == CHOOSE i \in 1..Len(s) :
                    s[i] = "," /\ \A j \in 1..(i - 1) : s[j] # ","
         IN  <<SubSeq(s, 1, i - 1)>> \o SplitComma(SubSeq(s, i + 1, Len(s)))
    ELSE <<s>>

\* raw?.split(',').map(k => k.trim()).filter(Boolean) || fallback
parseList(raw, fallback) ==
  IF raw = Undefined THEN fallback
  ELSE LET parts == SplitComma(raw)
           trimmed == [i \in 1..Len(parts) |-> Trim(parts[i])]
       IN  SelectSeqIdx(trimmed, {i \in 1..Len(trimmed) : trimmed[i] # <<>>}, 1)

\* Math.min(parseInt(rawData.limit) || 200, 500)
parseLimit(raw) == Min(IF raw.valid /\ raw.ms # 0 THEN raw.ms ELSE 200, 500)
\* parseInt(rawData.offset) || 0
parseOffset(raw) == IF raw.valid THEN raw.ms ELSE 0

parseRequest(r) ==
  [ keywords |-> parseList(r.keywords, JOB_KEYWORDS),
    locations |-> parseList(r.locations, TARGET_LOCATIONS),
    limit |-> parseLimit(r.limit),
    offset |-> parseOffset(r.offset) ]

\* ------------------------------------------------------ the serve handler
\* allPromises.slice(i, i + batchSize), as indices of the fan-out list.
batchOf(i) == {k \in 1..nsrc : i < k /\ k <= i + batchSize}

Settled(k) == src[k].st \in {"fulfilled", "rejected"}

\* A wait that ends as soon as one promise of the batch has settled.
batchReadyAny(i) == \E k \in batchOf(i) : Settled(k)

\* await Promise.allSettled(batch) resumes once every promise has settled.
batchReady(i) == \A k \in batchOf(i) : Settled(k)

\* for (const result of results) if (result.status === 'fulfilled')
\*   allJobs.push(...result.value) - over the sources from k to last.
RECURSIVE collectFrom(_, _)
collectFrom(k, last) ==
  IF k > last THEN <<>>
  ELSE (IF src[k].st = "fulfilled" THEN src[k].value ELSE <<>>)
       \o collectFrom(k + 1, last)

\* A collection that walks the batch's results from the last to the first.
RECURSIVE collectDown(_, _)
collectDown(k, first) ==
  IF k < first THEN <<>>
  ELSE (IF src[k].st = "fulfilled" THEN src[k].value ELSE <<>>)
       \o collectDown(k - 1, first)

collectBatchReversed(i) == collectDown(Min(i + batchSize, nsrc), i + 1)

collectBatch(i) == collectFrom(i + 1, Min(i + batchSize, nsrc))

\* allJobs.filter(job => { if (seenUrls.has(job.url)) return false;
\*                         seenUrls.add(job.url); return true; })
RECURSIVE dedupFrom(_, _)
dedupFrom(jobs, seenUrls) ==
  IF Len(jobs) = 0 THEN <<>>
  ELSE IF Head(jobs).url \in seenUrls THEN dedupFrom(Tail(jobs), seenUrls)
  ELSE <<Head(jobs)>> \o dedupFrom(Tail(jobs), seenUrls \cup {Head(jobs).url})

\* A filter whose seen-set is never filled.
dedupByUrlNoAdd(jobs) == jobs

dedupByUrl(jobs) == dedupFrom(jobs, {})

\* job.location.toLowerCase() raises a TypeError when location is no string.
scoreThrows(job) == job.location = NonString

\* for (const job of uniqueJobs) job.match_score = calculateScore(..):
\* the jobs as the loop leaves them, scored up to the first one that throws.
scoreAll(jobs, r, clock) ==
  [i \in 1..Len(jobs) |->
     IF \E j \in 1..i : scoreThrows(jobs[j]) THEN jobs[i]
     ELSE [jobs[i] EXCEPT !.match_score =
             calculateScore(jobs[i], r.keywords, r.locations, clock)]]

countTier(jobs, t) == Cardinality({i \in 1..Len(jobs) : jobs[i].company_tier = t})

NoResponse ==
  [ status |-> 0, success |-> FALSE, jobs |-> <<>>,
    stats |-> [tier1 |-> 0, tier2 |-> 0, tier3 |-> 0],
    total |-> 0, hasMore |-> FALSE, nextOffset |-> 0, error |-> "" ]

\* The handler from the deduplication to the response, the save block left
\* aside (it changes no listing of the page; see Finish).
respond(unique, r, clock) ==
  IF \E i \in 1..Len(unique) : scoreThrows(unique[i])
    THEN [NoResponse EXCEPT !.status = 500, !.error = "TypeError"]
    ELSE LET mixedJobs == mixJobsByTier(scoreAll(unique, r, clock), clock)
             paginatedJobs == JsSlice(mixedJobs, r.offset, r.offset + r.limit)
         IN  [ status |-> 200, success |-> TRUE, jobs |-> paginatedJobs,
               stats |-> [tier1 |-> countTier(paginatedJobs, 1),
                          tier2 |-> countTier(paginatedJobs, 2),
                          tier3 |-> countTier(paginatedJobs, 3)],
               total |-> Len(mixedJobs),
               hasMore |-> r.offset + r.limit < Len(mixedJobs),
               nextOffset |-> r.offset + r.limit,
               error |-> "" ]

\* ----------------------------------------------------------------- state
\* st is the client's position: "unissued", "headers" (fetch() pending, the
\* 5 s timer armed), "body" (response.json() pending, the timer cleared),
\* then the promise's status.  outcome records what the remote end did.
idleSource == [st |-> "unissued", value |-> <<>>, outcome |-> "none"]

IdleRequest == [keywords |-> <<>>, locations |-> <<>>, limit |-> 0, offset |-> 0]

\* The save block has not been reached, or was skipped.
NoSave == [read |-> "none", insert |-> "none"]

\* A handler that has not started, for nsrc configured sources.
PassIdle ==
  /\ pc = "idle"
  /\ nsrc \in 0..NumSources
  /\ req = IdleRequest
  /\ src = [k \in 1..NumSources |-> idleSource]
  /\ batchStart = 0
  /\ allJobs = <<>>
  /\ uniqueJobs = <<>>
  /\ response = NoResponse
  /\ outOfOrder = FALSE
  /\ saved = NoSave

\* The request carries no authorization header; nothing is read from the
\* jobs table or written to it.
AggInit ==
  /\ PassIdle
  /\ authHeader = ""
  /\ stored = <<>>

\* The inputs of the scorer harness, unused by the aggregation pass.
ScoreIdle ==
  /\ sjob = [title |-> <<>>, snippet |-> <<>>, requirements |-> <<>>,
             location |-> <<>>, company_tier |-> 3, posted_at |-> NaN]
  /\ skeywords = <<>>
  /\ slocations = <<>>
  /\ sscore = 0
  /\ sdone = FALSE

\* The inputs of the mixer harness, unused by the aggregation pass.
MixIdle ==
  /\ mjobs = <<>>
  /\ mmixed = <<>>
  /\ mcutoff = NaN
  /\ mout = <<>>
  /\ mdone = FALSE

\* ------------------------------------------------ live-jobs-feed: values
\* A freshness token: the ETag is btoa(lastModified + '-' + count), which
\* is one-to-one on the pair it encodes.
Token(lastModified, count) == [lastModified |-> lastModified, count |-> count]
\* No If-None-Match header, and no ETag header.
NoToken == Token(NoDate, 0 - 1)

NoFeedResponse ==
  [ status |-> 0, etag |-> NoToken, lastModified |-> NoDate, hasBody |-> FALSE,
    jobs |-> <<>>, total |-> 0, hasMore |-> FALSE,
    stats |-> [tier1 |-> 0, tier2 |-> 0, tier3 |-> 0, total |-> 0 - 1],
    error |-> "" ]

\* A feed request without parameters and headers, by a signed-in caller.
BaseRequest ==
  [ auth |-> "u1", limit |-> <<>>, offset |-> <<>>, since |-> NoDate,
    company |-> <<>>, tier |-> <<>>,
    ifNoneMatch |-> NoToken, ifModifiedSince |-> NoDate ]

\* The feed service before its first request, on an empty table.
FeedIdle ==
  /\ variant = 1
  /\ table = {}
  /\ nchanges = 0
  /\ freq = BaseRequest
  /\ failed = FALSE
  /\ fresp = NoFeedResponse
  /\ changed = FALSE
  /\ repeated = FALSE
  /\ seen = {}
  /\ stale = FALSE

\* The handler invocations that may run side by side on one jobs table.
Savers == {1, 2}

\* An invocation that has not been called.
idleSaver ==
  [pc |-> "idle", user_id |-> "", page |-> <<>>, newJobs |-> <<>>, status |-> 0]

\* No invocation has been called; the jobs table is empty.
PersistIdle ==
  /\ saver = [p \in Savers |-> idleSaver]
  /\ jobsTable = <<>>
  /\ overlapped = FALSE
  /\ faulted = FALSE

\* getTimeDelta has not been called.
DeltaIdle ==
  /\ tposted = NaN
  /\ tfeed = FALSE
  /\ tclock = 0
  /\ tdelta = [n |-> 0, unit |-> ""]
  /\ tdone = FALSE

\* The hook as it is mounted: useState([]) and useState({ tier1: 0, tier2: 0,
\* tier3: 0, total: 0 }); the jobs table is empty, nothing is in flight.
HookIdle ==
  /\ hvariant = 1
  /\ hserver = {}
  /\ hused = {}
  /\ hevents = <<>>
  /\ hflight = {}
  /\ hjobs = <<>>
  /\ hstats = [tier1 |-> 0, tier2 |-> 0, tier3 |-> 0, total |-> 0]
  /\ hchanges = 0

\* The background script as it is loaded: the initial bulkApplyState, no
\* queue processor, no timer, no message sent.
BulkIdle ==
  /\ bulkApplyState = [run |-> 0, isRunning |-> FALSE, currentIndex |-> 0,
                       jobs |-> <<>>, results |-> <<>>]
  /\ bprocs = <<>>
  /\ btimers = 0
  /\ bstarting = 0
  /\ bruns = 0
  /\ bsent = {}

ExtraIdle == PersistIdle /\ DeltaIdle /\ HookIdle /\ BulkIdle

Init == now = StartTime /\ AggInit /\ ScoreIdle /\ MixIdle /\ FeedIdle /\ ExtraIdle

\* supabase.auth.getUser(token).data.user?.id || null, "" standing for null:
\* the owner of a valid token.
getUser(header) == IF header = "Bearer t1" THEN "u1" ELSE ""

\* The urls of user_id's rows: select('url').eq('user_id', user_id).
existingUrls(tbl, user_id) ==
  {tbl[i].url : i \in {j \in 1..Len(tbl) : tbl[j].user_id = user_id}}

\* A save block that inserts the whole page.
newJobsUnfiltered(paginatedJobs, user_id, tbl, read) == paginatedJobs

\* newJobs: the page without the urls the read returned; the read's error
\* is not looked at, and its null data counts as no row.
newJobs(paginatedJobs, user_id, tbl, read) ==
  LET known == IF read = "ok" THEN existingUrls(tbl, user_id) ELSE {}
  IN  SelectSeqIdx(paginatedJobs,
        {i \in 1..Len(paginatedJobs) : paginatedJobs[i].url \notin known}, 1)

\* newJobs.slice(0, 100).map(job => ({ user_id, .., url: job.url, .. }))
jobsToInsert(jobs, user_id) ==
  [i \in 1..Len(Take(jobs, 100)) |-> [user_id |-> user_id, url |-> jobs[i].url]]

\* How the save block can go for the page paginatedJobs: each of the two
\* awaits resolves without error, resolves with an error, or raises; the
\* insert is reached when the read has not raised and newJobs is not empty.
saveOutcomes(paginatedJobs, user_id) ==
  IF user_id = "" \/ Len(paginatedJobs) = 0 THEN {NoSave}
  ELSE {[read |-> "throws", insert |-> "none"]}
       \cup { [read |-> rd, insert |-> ins] :
                rd \in {"ok", "error"}, ins \in {"ok", "error", "throws"} }
       \cup { [read |-> "ok", insert |-> "none"] }

reachesInsert(paginatedJobs, user_id, tbl, o) ==
  (o.insert # "none") <=>
     (o.read \in {"ok", "error"}
      /\ Len(newJobs(paginatedJobs, user_id, tbl, o.read)) > 0)

\* The rest of the handler once the batch loop has ended: the response of
\* respond(), unless an await of the save block raises and the catch block
\* answers.
Finish(all, r) ==
  \E answer \in {respond(dedupByUrl(all), r, now)} :
    \E o \in saveOutcomes(answer.jobs, getUser(authHeader)) :
      /\ reachesInsert(answer.jobs, getUser(authHeader), stored, o)
      /\ uniqueJobs' = scoreAll(dedupByUrl(all), r, now)
      /\ saved' = o
      /\ stored' = IF o.insert = "ok"
                     THEN stored \o jobsToInsert(
                            newJobs(answer.jobs, getUser(authHeader), stored, o.read),
                            getUser(authHeader))
                     ELSE stored
      /\ response' = IF "throws" \in {o.read, o.insert}
                       THEN [NoResponse EXCEPT !.status = 500, !.error = "Error"]
                       ELSE answer
      /\ pc' = "done"

\* A trigger request arrives: the handler parses it and calls every client
\* while building allPromises, so every request is sent and every 5 s timer
\* is armed before the first batch is awaited.
Start(r) ==
  /\ pc = "idle"
  /\ req' = parseRequest(r)
  /\ src' = [k \in 1..NumSources |->
               IF k <= nsrc THEN [idleSource EXCEPT !.st = "headers"]
               ELSE src[k]]
  /\ IF nsrc = 0
       THEN Finish(<<>>, parseRequest(r))
       ELSE pc' = "fetching" /\ UNCHANGED <<uniqueJobs, response, stored, saved>>
  /\ UNCHANGED <<now, nsrc, batchStart, allJobs, outOfOrder, authHeader, harnessVars>>

\* Source k's promise settles with result.
Settle(k, result, outcome) ==
  /\ src' = [src EXCEPT ![k] = [st |-> result.st, value |-> result.value,
                                outcome |-> outcome]]
  /\ outOfOrder' = (outOfOrder \/ \E j \in 1..(k - 1) : ~Settled(j))
  /\ UNCHANGED <<now, pc, nsrc, req, batchStart, allJobs, uniqueJobs,
                 response, saveVars, harnessVars>>

\* The response headers arrive with a 2xx status: clearTimeout, then the
\* client awaits response.json().
ResponseOk(k) ==
  /\ k <= nsrc /\ src[k].st = "headers"
  /\ src' = [src EXCEPT ![k].st = "body"]
  /\ UNCHANGED <<now, pc, nsrc, req, batchStart, allJobs, uniqueJobs,
                 response, outOfOrder, saveVars, harnessVars>>

\* The response headers arrive with a non-2xx status.
ResponseNotOk(k) ==
  /\ k <= nsrc /\ src[k].st = "headers"
  /\ Settle(k, emptyResult, "failed")

\* fetch() rejects with a network error.
FetchFails(k) ==
  /\ k <= nsrc /\ src[k].st = "headers"
  /\ Settle(k, emptyResult, "failed")

\* The 5 s timer of source k fires while fetch() is pending:
\* controller.abort() rejects that fetch, and no other.
Timeout(k) ==
  /\ k <= nsrc /\ src[k].st = "headers"
  /\ Settle(k, emptyResult, "failed")

\* response.json() settles: the body decodes to data, or cannot be decoded.
BodyArrives(k, data) ==
  /\ k <= nsrc /\ src[k].st = "body"
  /\ Settle(k, fetchJobs(k, data, now),
            IF Malformed(data) THEN "malformed" ELSE "decoded")

\* await Promise.allSettled(batch) resumes: the batch's results are pushed
\* in submission order; after the last batch the handler runs to its end.
CollectBatch ==
  /\ pc = "fetching"
  /\ batchReady(batchStart)
  /\ allJobs' = allJobs \o collectBatch(batchStart)
  /\ batchStart' = batchStart + batchSize
  /\ IF batchStart + batchSize >= nsrc
       THEN Finish(allJobs \o collectBatch(batchStart), req)
       ELSE UNCHANGED <<pc, uniqueJobs, response, stored, saved>>
  /\ UNCHANGED <<now, nsrc, req, src, outOfOrder, authHeader, harnessVars>>

\* Time passes.
Tick ==
  /\ now < StartTime + MaxTicks * HourMs
  /\ now' = now + HourMs
  /\ UNCHANGED <<aggVars, harnessVars>>

Next ==
  \/ \E r \in Requests : Start(r)
  \/ \E k \in 1..NumSources : ResponseOk(k)
  \/ \E k \in 1..NumSources : ResponseNotOk(k)
  \/ \E k \in 1..NumSources : FetchFails(k)
  \/ \E k \in 1..NumSources : Timeout(k)
  \/ \E k \in 1..NumSources : \E data \in Payloads(k) : BodyArrives(k, data)
  \/ CollectBatch
  \/ Tick

Spec == Init /\ [][Next]_vars

\* The pass of a signed-in caller, on a jobs table that is empty or holds
\* one of the caller's listings already.
SaveInit ==
  /\ now = StartTime
  /\ PassIdle
  /\ authHeader = "Bearer t1"
  /\ stored \in {<<>>, <<[user_id |-> "u1", url |-> <<"u1">>]>>}
  /\ ScoreIdle /\ MixIdle /\ FeedIdle /\ ExtraIdle

SaveSpec == SaveInit /\ [][Next]_vars

\* The handler's resumption after Promise.allSettled, by its guard and its
\* effect on the loop index: the steps of Next that change batchStart are
\* the CollectBatch steps.
ResumeBatch ==
  /\ pc = "fetching"
  /\ batchReady(batchStart)
  /\ batchStart' = batchStart + batchSize

\* The code's scheduling guarantees that a resumed handler runs and that an
\* armed timer fires; nothing obliges a remote end to answer or to finish
\* a body.
FairSpec ==
  /\ Spec
  /\ WF_batchStart(ResumeBatch)
  /\ \A k \in 1..NumSources : WF_vars(Timeout(k))

\* ------------------------------------------------------ scorer harness
\* The inputs calculateScore is tried on.
ScoreTitles == {<<"A", "I", " ", "d", "e", "v">>}
ScoreLocations == {<<"R", "e", "m", "o", "t", "e">>, <<"B", "e", "r", "l", "i", "n">>, <<"O", "s", "l", "o">>}
ScorePosted ==
  { Time(StartTime + 1), Time(StartTime - 1), Time(StartTime - HourMs),
    Time(StartTime - DayMs + 1), Time(StartTime - DayMs), NaN }
ScoreJobs ==
  { [title |-> ti, snippet |-> <<"P", "y", "t", "h", "o", "n">>, requirements |-> <<<<"P", "y", "t", "h", "o", "n">>>>,
     location |-> lo, company_tier |-> tr, posted_at |-> po] :
    ti \in ScoreTitles, lo \in ScoreLocations, tr \in {1, 2, 3},
    po \in ScorePosted }

\* A keyword found in every job text above (in another case), the empty
\* keyword, and a keyword found in none.
KeywordVocab == <<<<"A", "i">>, <<>>, <<"R", "u", "s", "t">>>>
Repeat(x, n) == [i \in 1..n |-> x]
\* Keyword lists of up to MaxKw entries, duplicates included.
KeywordLists ==
  { Repeat(KeywordVocab[1], n[1]) \o Repeat(KeywordVocab[2], n[2])
      \o Repeat(KeywordVocab[3], n[3]) :
    n \in { m \in (0..MaxKw) \X (0..MaxKw) \X (0..MaxKw) :
              m[1] + m[2] + m[3] <= MaxKw } }
LocationLists == { <<>>, <<<<"B", "E", "R", "L", "I", "N">>>> }

ScoreInit ==
  /\ now = StartTime
  /\ AggInit /\ nsrc = 0
  /\ sjob \in ScoreJobs
  /\ skeywords \in KeywordLists
  /\ slocations \in LocationLists
  /\ sscore = 0
  /\ sdone = FALSE
  /\ MixIdle /\ FeedIdle /\ ExtraIdle

\* One call of calculateScore on the harness inputs, at the current time.
Evaluate ==
  /\ sscore' = calculateScore(sjob, skeywords, slocations, now)
  /\ sdone' = TRUE
  /\ UNCHANGED <<now, aggVars, sjob, skeywords, slocations, mixVars, feedVars,
                 extraVars>>

ScoreNext == Evaluate \/ Tick

ScoreSpec == ScoreInit /\ [][ScoreNext]_vars

\* ------------------------------------------------------- mixer harness
\* Largest number of listings in the exhaustively enumerated inputs.
MaxMix == 10
\* Tier counts of the larger inputs: 90 listings, as two or three sources
\* of up to 50 listings each deliver them.
LargeMixCounts == {<<63, 18, 9>>, <<70, 11, 9>>}
MixCounts ==
  { c \in (0..MaxMix) \X (0..MaxMix) \X (0..MaxMix) :
      c[1] + c[2] + c[3] <= MaxMix } \cup LargeMixCounts

\* match_score and posted_at of the i-th listing follow a repeating pattern.
Cycle(pattern, i) == pattern[((i - 1) % Len(pattern)) + 1]
MixScores == << <<50>>, <<10, 90, 50>>, <<80, 80, 20, 60>> >>
MixPosted ==
  << <<Time(StartTime - HourMs), Time(StartTime - 1), Time(StartTime - 2 * HourMs)>>,
     <<Time(0), Time(StartTime - DayMs)>>,
     <<Time(StartTime - 1), Time(0), Time(StartTime - DayMs + HourMs),
       Time(StartTime - DayMs), Time(StartTime - HourMs)>>,
     <<Time(0), NaN, Time(StartTime - 1)>> >>

\* A deduplicated, scored list: c[1] tier-1 listings, then c[2] tier-2, then
\* c[3] tier-3, in the order of the fan-out list.
MixInput(c, sp, pp) ==
  [i \in 1..(c[1] + c[2] + c[3]) |->
     [ url |-> i,
       company_tier |-> IF i <= c[1] THEN 1 ELSE IF i <= c[1] + c[2] THEN 2 ELSE 3,
       match_score |-> Cycle(MixScores[sp], i),
       posted_at |-> Cycle(MixPosted[pp], i) ]]
MixInputs ==
  { MixInput(c, sp, pp) :
      c \in MixCounts, sp \in DOMAIN MixScores, pp \in DOMAIN MixPosted }

MixInit ==
  /\ now = StartTime
  /\ AggInit /\ nsrc = 0
  /\ ScoreIdle
  /\ mjobs \in MixInputs
  /\ mmixed = <<>>
  /\ mcutoff = NaN
  /\ mout = <<>>
  /\ mdone = FALSE
  /\ FeedIdle /\ ExtraIdle

\* One call of mixJobsByTier on the harness input, at the current time.
Mix ==
  /\ mmixed' = mixed(mjobs)
  /\ mcutoff' = Time(now - DayMs)
  /\ mout' = mixJobsByTier(mjobs, now)
  /\ mdone' = TRUE
  /\ UNCHANGED <<now, aggVars, scoreVars, mjobs, feedVars, extraVars>>

MixNext == Mix \/ Tick

MixSpec == MixInit /\ [][MixNext]_vars

\* ------------------------------------------------------- live-jobs-feed
\* supabase/functions/live-jobs-feed/index.ts holds two variants of the
\* handler: the first (lines 44-228) serves the signed-in caller's rows,
\* the second (lines 292-470) serves every row.
FeedVariants == {1, 2}

TIER_1_COMPANIES ==
  { <<"g", "o", "o", "g", "l", "e">>,
    <<"m", "e", "t", "a">>,
    <<"a", "m", "a", "z", "o", "n">>,
    <<"m", "i", "c", "r", "o", "s", "o", "f", "t">>,
    <<"a", "p", "p", "l", "e">>,
    <<"n", "v", "i", "d", "i", "a">>,
    <<"n", "e", "t", "f", "l", "i", "x">>,
    <<"s", "a", "l", "e", "s", "f", "o", "r", "c", "e">>,
    <<"s", "t", "r", "i", "p", "e">>,
    <<"a", "i", "r", "b", "n", "b">>,
    <<"c", "o", "i", "n", "b", "a", "s", "e">>,
    <<"c", "l", "o", "u", "d", "f", "l", "a", "r", "e">>,
    <<"d", "a", "t", "a", "b", "r", "i", "c", "k", "s">>,
    <<"s", "n", "o", "w", "f", "l", "a", "k", "e">>,
    <<"o", "p", "e", "n", "a", "i">>,
    <<"a", "n", "t", "h", "r", "o", "p", "i", "c">>,
    <<"s", "c", "a", "l", "e", " ", "a", "i">>,
    <<"p", "a", "l", "a", "n", "t", "i", "r">>,
    <<"f", "i", "g", "m", "a">>,
    <<"n", "o", "t", "i", "o", "n">>,
    <<"d", "i", "s", "c", "o", "r", "d">>,
    <<"s", "p", "o", "t", "i", "f", "y">>,
    <<"u", "b", "e", "r">>,
    <<"d", "o", "o", "r", "d", "a", "s", "h">>,
    <<"i", "n", "s", "t", "a", "c", "a", "r", "t">>,
    <<"l", "y", "f", "t">>,
    <<"p", "i", "n", "t", "e", "r", "e", "s", "t">>,
    <<"s", "n", "a", "p">>,
    <<"d", "r", "o", "p", "b", "o", "x">>,
    <<"r", "e", "d", "d", "i", "t">>,
    <<"r", "o", "b", "i", "n", "h", "o", "o", "d">> }

TIER_2_COMPANIES ==
  { <<"a", "c", "c", "e", "n", "t", "u", "r", "e">>,
    <<"o", "r", "a", "c", "l", "e">>,
    <<"c", "i", "s", "c", "o">>,
    <<"a", "d", "o", "b", "e">>,
    <<"m", "o", "n", "g", "o", "d", "b">>,
    <<"g", "i", "t", "l", "a", "b">>,
    <<"h", "a", "s", "h", "i", "c", "o", "r", "p">>,
    <<"e", "l", "a", "s", "t", "i", "c">>,
    <<"d", "a", "t", "a", "d", "o", "g">>,
    <<"c", "o", "n", "f", "l", "u", "e", "n", "t">>,
    <<"t", "w", "i", "l", "i", "o">>,
    <<"p", "l", "a", "i", "d">>,
    <<"r", "i", "p", "p", "l", "i", "n", "g">>,
    <<"b", "r", "e", "x">>,
    <<"r", "a", "m", "p">>,
    <<"m", "e", "r", "c", "u", "r", "y">>,
    <<"d", "e", "e", "l">>,
    <<"r", "e", "t", "o", "o", "l">>,
    <<"v", "e", "r", "c", "e", "l">>,
    <<"l", "i", "n", "e", "a", "r">>,
    <<"i", "b", "m">>,
    <<"s", "a", "p">>,
    <<"v", "m", "w", "a", "r", "e">>,
    <<"s", "e", "r", "v", "i", "c", "e", "n", "o", "w">>,
    <<"w", "o", "r", "k", "d", "a", "y">>,
    <<"d", "e", "l", "o", "i", "t", "t", "e">>,
    <<"p", "w", "c">>,
    <<"k", "p", "m", "g">>,
    <<"e", "y">>,
    <<"m", "c", "k", "i", "n", "s", "e", "y">>,
    <<"c", "o", "g", "n", "i", "z", "a", "n", "t">>,
    <<"i", "n", "f", "o", "s", "y", "s">>,
    <<"w", "i", "p", "r", "o">>,
    <<"t", "c", "s">>,
    <<"c", "a", "p", "g", "e", "m", "i", "n", "i">>,
    <<"h", "c", "l", "t", "e", "c", "h">> }

getCompanyTier(companyName) ==
  LET normalized == Trim(ToLowerCase(companyName))
  IN  IF normalized \in TIER_1_COMPANIES THEN 1
      ELSE IF normalized \in TIER_2_COMPANIES THEN 2
      ELSE 3

\* parseInt(s): leading white space, a sign, then decimal digits; NaN when
\* no digit follows.
Digits == <<"0", "1", "2", "3", "4", "5", "6", "7", "8", "9">>
IsDigit(c) == \E d \in 1..10 : Digits[d] = c
DigitValue(c) == (CHOOSE d \in 1..10 : Digits[d] = c) - 1

RECURSIVE SkipSpace(_)
SkipSpace(s) == IF s # <<>> /\ IsSpace(Head(s)) THEN SkipSpace(Tail(s)) ELSE s

RECURSIVE ParseDigits(_, _)
ParseDigits(s, acc) ==
  IF s = <<>> \/ ~IsDigit(Head(s)) THEN acc
  ELSE ParseDigits(Tail(s), 10 * acc + DigitValue(Head(s)))

parseInt(s) ==
  LET t == SkipSpace(s)
      signed == t # <<>> /\ Head(t) \in {"-", "+"}
      digits == IF signed THEN Tail(t) ELSE t
  IN  IF digits = <<>> \/ ~IsDigit(Head(digits)) THEN NaN
      ELSE IF signed /\ Head(t) = "-" THEN Time(0 - ParseDigits(digits, 0))
      ELSE Time(ParseDigits(digits, 0))

\* a + b on JS numbers.
NumAdd(a, b) == IF a.valid /\ b.valid THEN Time(a.ms + b.ms) ELSE NaN

\* Math.min(parseInt(.. || '50'), 100): NaN when the text is no number.
feedLimit(raw) ==
  LET n == parseInt(IF raw = <<>> THEN <<"5", "0">> ELSE raw)
  IN  IF n.valid THEN Time(Min(n.ms, 100)) ELSE NaN
\* parseInt(.. || '0')
feedOffset(raw) == parseInt(IF raw = <<>> THEN <<"0">> ELSE raw)

\* The rows the table is filled from.  company_tier is the stored column,
\* set by the table's trigger; the created_at values are distinct.
FeedRows ==
  { [id |-> 1, user_id |-> "u1", company |-> <<"S", "t", "r", "i", "p", "e">>,
     company_tier |-> 1, created_at |-> Time(StartTime - 3 * HourMs)],
    [id |-> 2, user_id |-> "u1", company |-> <<" ", "R", "e", "v", "o", "l", "u", "t">>,
     company_tier |-> 3, created_at |-> Time(StartTime - 2 * HourMs)],
    [id |-> 3, user_id |-> "u2", company |-> <<"A", "C", "C", "E", "N", "T", "U", "R", "E">>,
     company_tier |-> 3, created_at |-> Time(StartTime - HourMs)] }

\* column ILIKE '%text%'
ilike(column, text) == Includes(ToLowerCase(column), ToLowerCase(text))

\* The tier the second variant filters the query by, 0 when it adds no
\* filter: if (tierFilter) { tier = parseInt(..); if (tier >= 1 && tier <= 3)
queryTier(v, r) ==
  IF v = 2 /\ r.tier # <<>> /\ parseInt(r.tier).valid
     /\ parseInt(r.tier).ms >= 1 /\ parseInt(r.tier).ms <= 3
    THEN parseInt(r.tier).ms ELSE 0

\* The rows the built query selects, before .range().
selected(tbl, v, r) ==
  { row \in tbl :
      /\ v = 1 => row.user_id = r.auth
      /\ r.since # NoDate => NumGt(row.created_at, r.since)
      /\ r.company # <<>> => ilike(row.company, r.company)
      /\ queryTier(v, r) # 0 => row.company_tier = queryTier(v, r) }

\* .order('created_at', desc), preceded in the second variant by
\* .order('company_tier', asc).
rowBefore(v, a, b) ==
  IF v = 2 /\ a.company_tier # b.company_tier
    THEN a.company_tier < b.company_tier
    ELSE a.created_at.ms > b.created_at.ms

RECURSIVE ordered(_, _)
ordered(rows, v) ==
  IF rows = {} THEN <<>>
  ELSE LET first == CHOOSE a \in rows :
                      \A b \in rows \ {a} : rowBefore(v, a, b)
       IN  <<first>> \o ordered(rows \ {first}, v)

\* What await query can resolve to.  The store may fail at any time, and it
\* rejects a range whose offset or limit is no number or is negative;
\* otherwise it returns the rows offset .. offset + limit - 1 of the ordered
\* selection and the exact count of the selection.
queryResults(tbl, v, r) ==
  LET offset == feedOffset(r.offset)
      limit == feedLimit(r.limit)
      rows == ordered(selected(tbl, v, r), v)
  IN  {[error |-> TRUE, data |-> <<>>, count |-> 0]}
      \cup (IF offset.valid /\ limit.valid /\ offset.ms >= 0 /\ limit.ms >= 0
              THEN {[error |-> FALSE,
                     data |-> JsSlice(rows, offset.ms, offset.ms + limit.ms),
                     count |-> Len(rows)]}
              ELSE {})

\* formattedJobs: the page with its tier annotation, filtered by tier in the
\* first variant, sorted by tier and then newest first.
formattedJobs(v, r, jobs) ==
  LET annotated == [i \in 1..Len(jobs) |->
                      [jobs[i] EXCEPT !.company_tier =
                         IF v = 1 THEN getCompanyTier(jobs[i].company)
                         ELSE jobs[i].company_tier]]
      tier == parseInt(r.tier)
      kept == IF v = 1 /\ r.tier # <<>>
                THEN SelectSeqIdx(annotated,
                       {i \in 1..Len(annotated) :
                          tier.valid /\ annotated[i].company_tier = tier.ms}, 1)
                ELSE annotated
  IN  StableSort(kept, "feed")

\* stats: counted on the filtered listings in the first variant, on the
\* page in the second, which adds the page length as total.
feedStats(v, r, jobs) ==
  LET counted == IF v = 1 THEN formattedJobs(v, r, jobs) ELSE jobs
  IN  [ tier1 |-> countTier(counted, 1), tier2 |-> countTier(counted, 2),
        tier3 |-> countTier(counted, 3),
        total |-> IF v = 1 THEN 0 - 1 ELSE Len(jobs) ]

\* lastModifiedDate <= modifiedSinceDate
unmodifiedSinceStrict(lastModified, ifModifiedSince) ==
  NumLt(GetTime(lastModified), GetTime(ifModifiedSince))
unmodifiedSince(lastModified, ifModifiedSince) ==
  NumLe(GetTime(lastModified), GetTime(ifModifiedSince))

notModified(etag, lastModified) ==
  [NoFeedResponse EXCEPT !.status = 304, !.etag = etag,
                         !.lastModified = lastModified]

\* The handler of variant v on request r, once await query has resolved to
\* result, with Date.now() passed as clock.
feedHandler(v, r, result, clock) ==
  IF v = 1 /\ r.auth = ""
    THEN [NoFeedResponse EXCEPT !.status = 401, !.error = "Unauthorized"]
  ELSE IF result.error
    THEN [NoFeedResponse EXCEPT !.status = 500, !.error = "Database error"]
  ELSE LET jobs == result.data
           count == result.count
           lastModified == IF Len(jobs) > 0 THEN jobs[1].created_at
                           ELSE Time(clock)
           etag == Token(lastModified, count)
       IN  IF r.ifNoneMatch = etag THEN notModified(etag, lastModified)
           ELSE IF /\ r.ifModifiedSince # NoDate /\ r.since = NoDate
                   /\ unmodifiedSince(lastModified, r.ifModifiedSince)
             THEN notModified(etag, lastModified)
           ELSE [ status |-> 200, etag |-> etag, lastModified |-> lastModified,
                  hasBody |-> TRUE,
                  jobs |-> formattedJobs(v, r, jobs),
                  total |-> count,
                  hasMore |-> NumLt(NumAdd(feedOffset(r.offset), feedLimit(r.limit)),
                                    Time(count)),
                  stats |-> feedStats(v, r, jobs),
                  error |-> "" ]

\* The requests the feed is tried on, without their conditional headers.
FeedRequests ==
  {BaseRequest, [BaseRequest EXCEPT !.auth = ""]}
  \cup {[BaseRequest EXCEPT !.limit = l] :
          l \in {<<"a", "b", "c">>, <<"-", "5">>, <<"0">>, <<"1", "0", "0", "0">>}}
  \cup {[BaseRequest EXCEPT !.offset = o] : o \in {<<"-", "1">>, <<"7">>}}
  \cup {[BaseRequest EXCEPT !.tier = t] : t \in {<<"5">>}}
  \cup { [BaseRequest EXCEPT !.limit = <<"1">>, !.tier = <<"1">>],
         [BaseRequest EXCEPT !.limit = <<"1">>, !.offset = <<"1">>],
         [BaseRequest EXCEPT !.since = Time(StartTime - 2 * HourMs)],
         [BaseRequest EXCEPT !.company = <<"S", "T", "R", "I", "P", "E">>] }

\* A token no response has carried.
StaleToken == Token(Time(0), 0)
\* The conditional headers of a request: none, a stale token, a date that
\* cannot be parsed, and, when the caller repeats its last request, the
\* token or the Last-Modified value of the response resp it has seen.
ConditionalHeaders(resp, again) ==
  { [ifNoneMatch |-> NoToken, ifModifiedSince |-> NoDate],
    [ifNoneMatch |-> StaleToken, ifModifiedSince |-> NoDate],
    [ifNoneMatch |-> NoToken, ifModifiedSince |-> NaN] }
  \cup (IF again /\ resp.etag # NoToken
          THEN { [ifNoneMatch |-> resp.etag, ifModifiedSince |-> NoDate],
                 [ifNoneMatch |-> NoToken, ifModifiedSince |-> resp.lastModified],
                 [ifNoneMatch |-> StaleToken, ifModifiedSince |-> resp.lastModified] }
          ELSE {})

\* The request without its conditional headers.
parameters(r) == [r EXCEPT !.ifNoneMatch = NoToken, !.ifModifiedSince = NoDate]

\* Largest number of changes of the table in one behaviour.
MaxChanges == 1

FeedInit ==
  /\ now = StartTime
  /\ AggInit /\ nsrc = 0
  /\ ScoreIdle /\ MixIdle /\ ExtraIdle
  /\ variant \in FeedVariants
  /\ table \in {{}, {row \in FeedRows : row.user_id = "u1"}, FeedRows}
  /\ nchanges = 0
  /\ freq = BaseRequest
  /\ failed = FALSE
  /\ fresp = NoFeedResponse
  /\ changed = FALSE
  /\ repeated = FALSE
  /\ seen = {}
  /\ stale = FALSE

\* One feed request, from its arrival to its response.
Query(r, h) ==
  LET request == [r EXCEPT !.ifNoneMatch = h.ifNoneMatch,
                           !.ifModifiedSince = h.ifModifiedSince]
  IN  /\ \E result \in queryResults(table, variant, request) :
           /\ failed' = (result.error /\ ~(variant = 1 /\ request.auth = ""))
           /\ fresp' = feedHandler(variant, request, result, now)
      /\ freq' = request
      /\ repeated' = (/\ fresp.etag # NoToken /\ ~changed
                      /\ h.ifNoneMatch = fresp.etag
                      /\ r = parameters(freq))
      /\ changed' = FALSE
      /\ seen' = selected(table, variant, request)
      /\ stale' = (/\ fresp.etag # NoToken
                   /\ r = parameters(freq)
                   /\ \/ h.ifNoneMatch = fresp.etag
                      \/ h.ifModifiedSince = fresp.lastModified
                   /\ selected(table, variant, request) # seen)
      /\ UNCHANGED <<now, aggVars, scoreVars, mixVars, variant, table, nchanges,
                     extraVars>>

\* scrape-jobs inserts a row; created_at defaults to now().  Rows of equal
\* created_at, whose order the query leaves open, are kept out of the table.
InsertRow(row) ==
  /\ nchanges < MaxChanges
  /\ \A other \in table : other.id # row.id /\ other.created_at # Time(now)
  /\ table' = table \cup {[row EXCEPT !.created_at = Time(now)]}
  /\ nchanges' = nchanges + 1
  /\ changed' = TRUE
  /\ UNCHANGED <<now, aggVars, scoreVars, mixVars, variant, freq, failed, fresp,
                 repeated, seen, stale, extraVars>>

FeedNext ==
  \/ \E r \in FeedRequests :
       \E h \in ConditionalHeaders(fresp, r = parameters(freq)) : Query(r, h)
  \/ \E row \in FeedRows : InsertRow(row)
  \/ Tick

FeedSpec == FeedInit /\ [][FeedNext]_vars

\* --------------------------------------------- save block, side by side
\* The save block of the handler (lines 429-463) in steps, one per await, for
\* invocations that share the jobs table.
MaxRows == 3

\* user_id of a pass: null, or the owner of the token.
SaveOwners == {"", "u1", "u2"}

\* paginatedJobs of a pass: a slice of the deduplicated listings.
SavePages ==
  { <<>>, <<[url |-> "a"]>>, <<[url |-> "b"]>>, <<[url |-> "a"], [url |-> "b"]>> }

\* What an await on the store client can do.
StoreOutcomes == {"ok", "error", "throws"}

PersistInit ==
  /\ now = StartTime
  /\ AggInit /\ nsrc = 0
  /\ ScoreIdle /\ MixIdle /\ FeedIdle
  /\ PersistIdle /\ DeltaIdle /\ HookIdle /\ BulkIdle

\* The handler reaches the save block with user_id and paginatedJobs, and
\* skips it for an anonymous caller or an empty page.
BeginSave(p, user_id, page) ==
  /\ saver[p].pc = "idle"
  /\ Len(jobsTable) < MaxRows
  /\ saver' = [saver EXCEPT ![p] =
                 IF user_id # "" /\ Len(page) > 0
                   THEN [idleSaver EXCEPT !.pc = "read", !.user_id = user_id,
                                          !.page = page]
                   ELSE [idleSaver EXCEPT !.pc = "done", !.user_id = user_id,
                                          !.page = page, !.status = 200]]
  /\ overlapped' = (overlapped
                     \/ \E q \in Savers \ {p} : saver[q].pc \in {"read", "insert"})
  /\ UNCHANGED <<now, aggVars, scoreVars, mixVars, feedVars, deltaVars, hookVars,
                 bulkVars,
                 jobsTable, faulted>>

\* The select of the owner's urls resolves or raises; newJobs is computed
\* from what it returned.
ReadExisting(p, outcome) ==
  /\ saver[p].pc = "read"
  /\ saver' = [saver EXCEPT ![p] =
                 IF outcome = "throws"
                   THEN [saver[p] EXCEPT !.pc = "done", !.status = 500]
                 ELSE IF Len(newJobs(saver[p].page, saver[p].user_id,
                                     jobsTable, outcome)) > 0
                   THEN [saver[p] EXCEPT
                           !.pc = "insert",
                           !.newJobs = newJobs(saver[p].page, saver[p].user_id,
                                               jobsTable, outcome)]
                 ELSE [saver[p] EXCEPT !.pc = "done", !.status = 200]]
  /\ faulted' = (faulted \/ outcome # "ok")
  /\ UNCHANGED <<now, aggVars, scoreVars, mixVars, feedVars, deltaVars, hookVars,
                 bulkVars,
                 jobsTable, overlapped>>

\* The insert of jobsToInsert resolves or raises.
InsertJobs(p, outcome) ==
  /\ saver[p].pc = "insert"
  /\ jobsTable' = IF outcome = "ok"
                    THEN jobsTable \o jobsToInsert(saver[p].newJobs, saver[p].user_id)
                    ELSE jobsTable
  /\ saver' = [saver EXCEPT ![p] =
                 [saver[p] EXCEPT !.pc = "done",
                           !.status = IF outcome = "throws" THEN 500 ELSE 200]]
  /\ faulted' = (faulted \/ outcome # "ok")
  /\ UNCHANGED <<now, aggVars, scoreVars, mixVars, feedVars, deltaVars, hookVars,
                 bulkVars,
                 overlapped>>

\* The response is sent; the invocation can be called again.
Return(p) ==
  /\ saver[p].pc = "done"
  /\ saver' = [saver EXCEPT ![p] = idleSaver]
  /\ UNCHANGED <<now, aggVars, scoreVars, mixVars, feedVars, deltaVars, hookVars,
                 bulkVars,
                 jobsTable, overlapped,
                 faulted>>

PersistNext ==
  \/ \E p \in Savers : \E user_id \in SaveOwners : \E page \in SavePages :
       BeginSave(p, user_id, page)
  \/ \E p \in Savers : \E outcome \in StoreOutcomes : ReadExisting(p, outcome)
  \/ \E p \in Savers : \E outcome \in StoreOutcomes : InsertJobs(p, outcome)
  \/ \E p \in Savers : Return(p)

PersistSpec == PersistInit /\ [][PersistNext]_vars

\* ---------------------------------------------------- getTimeDelta alone
\* The elapsed times the harness describes, in milliseconds: around every
\* bucket boundary, the three worked examples, and dates in the future.
DeltaElapsed ==
  {m * MinuteMs + e : m \in {0, 1, 5, 59, 60, 61, 119}, e \in {0, 1, MinuteMs - 1}}
  \cup {h * HourMs + e : h \in {2, 23, 24, 25, 47, 48, 167, 168, 169, 240, 335, 336},
                        e \in {0 - 1, 0, 1}}
  \cup {0 - 1, 0 - MinuteMs, 0 - HourMs - 1}

\* The dateStr arguments: a parsable date, an unparsable one, a missing one.
DeltaDates ==
  {Time(StartTime - e) : e \in DeltaElapsed} \cup {NaN, NoDate}

DeltaInit ==
  /\ now = StartTime
  /\ AggInit /\ nsrc = 0
  /\ ScoreIdle /\ MixIdle /\ FeedIdle /\ PersistIdle /\ HookIdle /\ BulkIdle
  /\ tposted \in DeltaDates
  /\ tfeed \in BOOLEAN
  /\ tclock = 0
  /\ tdelta = [n |-> 0, unit |-> ""]
  /\ tdone = FALSE

\* One call of getTimeDelta, of the aggregator or of the feed service, at
\* the current time.
Describe ==
  /\ tclock' = now
  /\ tdelta' = IF tfeed THEN getTimeDeltaFeed(tposted, now)
                         ELSE getTimeDelta(tposted, now)
  /\ tdone' = TRUE
  /\ UNCHANGED <<now, aggVars, scoreVars, mixVars, feedVars, persistVars,
                 hookVars, bulkVars, tposted, tfeed>>

DeltaNext == Describe \/ Tick

DeltaSpec == DeltaInit /\ [][DeltaNext]_vars

\* ------------------------------------------------------ useLiveJobs hook
\* src/hooks/useLiveJobs.ts: the jobs and stats state of the hook, fed by
\* fetchJobs (initial fetch, 60 s poll, refetch) and by the realtime
\* subscription to the jobs table.  hserver is the jobs table, hevents the
\* realtime events on their way to the hook, hflight the feed responses on
\* their way to it.
MaxHookChanges == 3
MaxFlight == 1

\* The rows the jobs table is changed with.
HookRows == FeedRows

\* stats.total when the response has no such field, and after adding 1 to it.
StatUndefined == 0 - 1
StatNaN == 0 - 2
\* prev.total + 1
statPlusOne(total) == IF total < 0 THEN StatNaN ELSE total + 1

\* What supabase.functions.invoke('live-jobs-feed', ..) can resolve to on
\* the table tbl: the feed reads its parameters from the URL, so the body of
\* the call leaves them at their defaults.
feedResponses(v, tbl, clock) ==
  { feedHandler(v, BaseRequest, result, clock) :
      result \in queryResults(tbl, v, BaseRequest) }

\* fetchJobs after its await: a non-2xx answer is funcError and is thrown;
\* otherwise data.jobs and data.stats replace the state.
fetchedJobs(resp, prev) == IF resp.status = 200 THEN resp.jobs ELSE prev
fetchedStats(resp, prev) == IF resp.status = 200 THEN resp.stats ELSE prev

\* The INSERT branch: [newJob, ...prev] sorted by tier, then newest first,
\* cut to 100.
insertedJobs(newJob, prev) == Take(StableSort(<<newJob>> \o prev, "feed"), 100)

\* The INSERT branch on stats: the tier of the job and total grow by one.
insertedStats(newJob, prev) ==
  [ tier1 |-> prev.tier1 + (IF newJob.company_tier = 1 THEN 1 ELSE 0),
    tier2 |-> prev.tier2 + (IF newJob.company_tier = 2 THEN 1 ELSE 0),
    tier3 |-> prev.tier3 + (IF newJob.company_tier = 3 THEN 1 ELSE 0),
    total |-> statPlusOne(prev.total) ]

\* The UPDATE branch: prev.map(j => j.id === updatedJob.id ? updatedJob : j)
updatedJobs(updatedJob, prev) ==
  [i \in 1..Len(prev) |-> IF prev[i].id = updatedJob.id THEN updatedJob ELSE prev[i]]

\* The DELETE branch: prev.filter(j => j.id !== deletedId)
deletedJobs(deletedId, prev) ==
  SelectSeqIdx(prev, {i \in 1..Len(prev) : prev[i].id # deletedId}, 1)

HookInit ==
  /\ now = StartTime
  /\ AggInit /\ nsrc = 0
  /\ ScoreIdle /\ MixIdle /\ FeedIdle /\ PersistIdle /\ DeltaIdle /\ BulkIdle
  /\ hvariant \in FeedVariants
  /\ hserver = {}
  /\ hused = {}
  /\ hevents = <<>>
  /\ hflight = {}
  /\ hjobs = <<>>
  /\ hstats = [tier1 |-> 0, tier2 |-> 0, tier3 |-> 0, total |-> 0]
  /\ hchanges = 0

\* A row is inserted into the jobs table, created_at defaulting to now();
\* the realtime channel carries the INSERT event with the row as
\* payload.new.  Rows of equal created_at, whose order the feed query leaves
\* open, are kept out of the table.
DbInsert(row) ==
  /\ hchanges < MaxHookChanges
  /\ row.id \notin hused
  /\ \A other \in hserver : other.created_at # Time(now)
  /\ hserver' = hserver \cup {[row EXCEPT !.created_at = Time(now)]}
  /\ hused' = hused \cup {row.id}
  /\ hevents' = Append(hevents, [eventType |-> "INSERT",
                                  job |-> [row EXCEPT !.created_at = Time(now)]])
  /\ hchanges' = hchanges + 1
  /\ UNCHANGED <<now, aggVars, scoreVars, mixVars, feedVars, persistVars,
                 deltaVars, bulkVars, hvariant, hflight, hjobs, hstats>>

\* A row of the table gets another tier; the channel carries the UPDATE
\* event with the new row.
DbUpdate(row, tier) ==
  /\ hchanges < MaxHookChanges
  /\ row \in hserver
  /\ tier # row.company_tier
  /\ hserver' = (hserver \ {row}) \cup {[row EXCEPT !.company_tier = tier]}
  /\ hevents' = Append(hevents, [eventType |-> "UPDATE",
                                  job |-> [row EXCEPT !.company_tier = tier]])
  /\ hchanges' = hchanges + 1
  /\ UNCHANGED <<now, aggVars, scoreVars, mixVars, feedVars, persistVars,
                 deltaVars, bulkVars, hvariant, hused, hflight, hjobs, hstats>>

\* A row of the table is deleted; the channel carries the DELETE event with
\* the old row.
DbDelete(row) ==
  /\ hchanges < MaxHookChanges
  /\ row \in hserver
  /\ hserver' = hserver \ {row}
  /\ hevents' = Append(hevents, [eventType |-> "DELETE", job |-> row])
  /\ hchanges' = hchanges + 1
  /\ UNCHANGED <<now, aggVars, scoreVars, mixVars, feedVars, persistVars,
                 deltaVars, bulkVars, hvariant, hused, hflight, hjobs, hstats>>

\* The feed service answers a fetchJobs call from the table as it is.
FeedAnswers(resp) ==
  /\ Cardinality(hflight) < MaxFlight
  /\ resp \notin hflight
  /\ hflight' = hflight \cup {resp}
  /\ UNCHANGED <<now, aggVars, scoreVars, mixVars, feedVars, persistVars,
                 deltaVars, bulkVars, hvariant, hserver, hused, hevents, hjobs, hstats,
                 hchanges>>

\* fetchJobs resumes with the answer resp.
FetchCompletes(resp) ==
  /\ resp \in hflight
  /\ hflight' = hflight \ {resp}
  /\ hjobs' = fetchedJobs(resp, hjobs)
  /\ hstats' = fetchedStats(resp, hstats)
  /\ UNCHANGED <<now, aggVars, scoreVars, mixVars, feedVars, persistVars,
                 deltaVars, bulkVars, hvariant, hserver, hused, hevents, hchanges>>

\* The subscription callback runs on the oldest event under way.
RealtimeEvent ==
  /\ hevents # <<>>
  /\ hevents' = Tail(hevents)
  /\ hjobs' = CASE Head(hevents).eventType = "INSERT" ->
                     insertedJobs(Head(hevents).job, hjobs)
                 [] Head(hevents).eventType = "UPDATE" ->
                     updatedJobs(Head(hevents).job, hjobs)
                 [] Head(hevents).eventType = "DELETE" ->
                     deletedJobs(Head(hevents).job.id, hjobs)
  /\ hstats' = IF Head(hevents).eventType = "INSERT"
                 THEN insertedStats(Head(hevents).job, hstats)
                 ELSE hstats
  /\ UNCHANGED <<now, aggVars, scoreVars, mixVars, feedVars, persistVars,
                 deltaVars, bulkVars, hvariant, hserver, hused, hflight, hchanges>>

HookNext ==
  \/ \E row \in HookRows : DbInsert(row)
  \/ \E row \in hserver : \E tier \in {1, 2, 3} : DbUpdate(row, tier)
  \/ \E row \in hserver : DbDelete(row)
  \/ \E resp \in feedResponses(hvariant, hserver, now) : FeedAnswers(resp)
  \/ \E resp \in hflight : FetchCompletes(resp)
  \/ RealtimeEvent
  \/ Tick

HookSpec == HookInit /\ [][HookNext]_vars

\* ------------------------------------------------------ bulk-apply queue
\* The extension's background script: bulkApplyState, the messages
\* bulkApplyStart and bulkApplyStop, and processBulkApplyQueue in steps, one
\* per await.  bprocs holds the invocations of processBulkApplyQueue that
\* have passed its guard, with their local variables; btimers counts the
\* setTimeout callbacks not yet run, bstarting the startBulkApply calls that
\* wait for chrome.storage.local.set, bsent the bulkApplyComplete messages.
MaxRuns == 2
\* Largest number of jobs of a run.
BulkLen == 2

\* The jobs of the run-th bulkApplyStart message, n of them.
BulkJobs(run, n) == [i \in 1..n |-> 10 * run + i]

\* The variables the background script leaves alone.
bulkRest == <<now, aggVars, scoreVars, mixVars, feedVars, persistVars,
              deltaVars, hookVars>>

BulkInit ==
  /\ now = StartTime
  /\ AggInit /\ nsrc = 0
  /\ ScoreIdle /\ MixIdle /\ FeedIdle /\ PersistIdle /\ DeltaIdle /\ HookIdle
  /\ BulkIdle

\* processBulkApplyQueue up to its first await, on the state st: it returns
\* when no run is on; at the end of the list it calls onBulkApplyComplete,
\* which sends the results and waits for the storage; otherwise it takes
\* jobs[currentIndex] and waits for processSingleJobWithRetry.
enterQueue(st, procs) ==
  IF ~st.isRunning THEN procs
  ELSE IF st.currentIndex >= Len(st.jobs)
    THEN Append(procs, [pc |-> "complete", job |-> 0])
  ELSE Append(procs, [pc |-> "job", job |-> st.jobs[st.currentIndex + 1]])

\* The bulkApplyComplete messages after processBulkApplyQueue has been
\* entered on the state st.
sentOnEnter(st, sent) ==
  IF st.isRunning /\ st.currentIndex >= Len(st.jobs)
    THEN sent \cup {[run |-> st.run, jobs |-> st.jobs, results |-> st.results]}
    ELSE sent

\* procs without its k-th element.
without(procs, k) == SubSeq(procs, 1, k - 1) \o SubSeq(procs, k + 1, Len(procs))

\* bulkApplyStart while no run is on (it throws otherwise): a new state
\* object replaces bulkApplyState, and the call waits for the storage.
startBulkApply(jobs) ==
  /\ bruns < MaxRuns
  /\ ~bulkApplyState.isRunning
  /\ bulkApplyState' = [run |-> bruns + 1, isRunning |-> TRUE, currentIndex |-> 0,
                        jobs |-> jobs, results |-> <<>>]
  /\ bruns' = bruns + 1
  /\ bstarting' = bstarting + 1
  /\ UNCHANGED <<bulkRest, bprocs, btimers, bsent>>

\* startBulkApply resumes and calls processBulkApplyQueue.
startContinues ==
  /\ bstarting > 0
  /\ bstarting' = bstarting - 1
  /\ bprocs' = enterQueue(bulkApplyState, bprocs)
  /\ bsent' = sentOnEnter(bulkApplyState, bsent)
  /\ UNCHANGED <<bulkRest, bulkApplyState, btimers, bruns>>

\* bulkApplyStop: isRunning = false.
stopBulkApply ==
  /\ bulkApplyState.isRunning
  /\ bulkApplyState' = [bulkApplyState EXCEPT !.isRunning = FALSE]
  /\ UNCHANGED <<bulkRest, bprocs, btimers, bstarting, bruns, bsent>>

\* processSingleJobWithRetry settles for the k-th invocation: the result is
\* pushed to bulkApplyState.results, currentIndex is incremented, and the
\* invocation waits for the storage.
jobSettles(k, status) ==
  /\ k \in 1..Len(bprocs) /\ bprocs[k].pc = "job"
  /\ bulkApplyState' =
       [bulkApplyState EXCEPT
          !.results = Append(@, [job |-> bprocs[k].job, status |-> status]),
          !.currentIndex = @ + 1]
  /\ bprocs' = [bprocs EXCEPT ![k].pc = "save"]
  /\ UNCHANGED <<bulkRest, btimers, bstarting, bruns, bsent>>

\* The progress is saved: the k-th invocation ends, after setting the timer
\* of the next one if a run is on.
progressSaved(k) ==
  /\ k \in 1..Len(bprocs) /\ bprocs[k].pc = "save"
  /\ btimers' = IF bulkApplyState.isRunning THEN btimers + 1 ELSE btimers
  /\ bprocs' = without(bprocs, k)
  /\ UNCHANGED <<bulkRest, bulkApplyState, bstarting, bruns, bsent>>

\* setTimeout(processBulkApplyQueue, ..) runs out.
timerFires ==
  /\ btimers > 0
  /\ btimers' = btimers - 1
  /\ bprocs' = enterQueue(bulkApplyState, bprocs)
  /\ bsent' = sentOnEnter(bulkApplyState, bsent)
  /\ UNCHANGED <<bulkRest, bulkApplyState, bstarting, bruns>>

\* onBulkApplyComplete resumes after the storage is cleared:
\* bulkApplyState.isRunning = false.
completeEnds(k) ==
  /\ k \in 1..Len(bprocs) /\ bprocs[k].pc = "complete"
  /\ bulkApplyState' = [bulkApplyState EXCEPT !.isRunning = FALSE]
  /\ bprocs' = without(bprocs, k)
  /\ UNCHANGED <<bulkRest, btimers, bstarting, bruns, bsent>>

BulkNext ==
  \/ \E n \in 1..BulkLen : startBulkApply(BulkJobs(bruns + 1, n))
  \/ startContinues
  \/ stopBulkApply
  \/ \E k \in 1..Len(bprocs) : \E status \in {"success", "failed"} :
       jobSettles(k, status)
  \/ \E k \in 1..Len(bprocs) : progressSaved(k)
  \/ timerFires
  \/ \E k \in 1..Len(bprocs) : completeEnds(k)

BulkSpec == BulkInit /\ [][BulkNext]_vars

\* ------------------------------------------------------------ properties
Unscored(job) == [job EXCEPT !.match_score = 0]

\* The first entry of jobs that carries url.
FirstWithUrl(jobs, url) ==
  jobs[CHOOSE i \in 1..Len(jobs) :
         jobs[i].url = url /\ \A j \in 1..(i - 1) : jobs[j].url # url]

FirstIndex(jobs, url) ==
  CHOOSE i \in 1..Len(jobs) :
    jobs[i].url = url /\ \A j \in 1..(i - 1) : jobs[j].url # url

Urls(jobs) == {jobs[i].url : i \in 1..Len(jobs)}

\* The results of the sources lo..hi that did not fail, in submission order.
RECURSIVE ResultsOf(_, _)
ResultsOf(lo, hi) ==
  IF lo > hi THEN <<>>
  ELSE (IF src[lo].outcome \in {"decoded", "malformed"} THEN src[lo].value ELSE <<>>)
       \o ResultsOf(lo + 1, hi)

Pending(k) == src[k].st \in {"headers", "body"}

\* C1: after a pass, the deduplicated collection holds exactly one listing
\* per distinct url of the combined list, that listing is the first one
\* carrying the url, and the kept listings are in the combined list's order.
DedupFirstWins ==
  pc = "done" =>
    /\ \A i, j \in 1..Len(uniqueJobs) :
         i # j => uniqueJobs[i].url # uniqueJobs[j].url
    /\ Urls(uniqueJobs) = Urls(allJobs)
    /\ \A i \in 1..Len(uniqueJobs) :
         Unscored(uniqueJobs[i]) = FirstWithUrl(allJobs, uniqueJobs[i].url)
    /\ \A i, j \in 1..Len(uniqueJobs) :
         i < j => FirstIndex(allJobs, uniqueJobs[i].url)
                    < FirstIndex(allJobs, uniqueJobs[j].url)

\* A finished pass whose combined list repeats urls, within one source and
\* across two sources.
DedupWitness ==
  /\ pc = "done"
  /\ Len(uniqueJobs) >= 2
  /\ Len(allJobs) >= Len(uniqueJobs) + 2

\* C2: whichever sources fail, the pass completes without raising, its
\* working collection is the concatenation of the results of the sources
\* that succeeded, and with no source or only failing sources the response
\* is a success carrying an empty collection.
PassSucceedsWhateverFails ==
  pc = "done" =>
    /\ response.success /\ response.status = 200
    /\ allJobs = ResultsOf(1, nsrc)
    /\ (\A k \in 1..nsrc : src[k].outcome = "failed") =>
         allJobs = <<>> /\ response.jobs = <<>>

\* C3: a client never rejects, and resolves to an empty list on a non-2xx
\* answer, a timeout, a network error and a malformed payload.
ClientEmptyOnFailure ==
  \A k \in 1..nsrc :
    /\ src[k].st # "rejected"
    /\ src[k].outcome \in {"failed", "malformed"} =>
         src[k].st = "fulfilled" /\ src[k].value = <<>>

\* C4: at most batchSize requests are issued and not yet settled.
InFlightWithinBatch ==
  Cardinality({k \in 1..nsrc : Pending(k)}) <= batchSize

BatchIndex(k) == (k - 1) \div batchSize

\* C5: a source's result is collected only when every source of its batch
\* and of the batches before it has settled, and every listing a source of
\* a collected batch resolved to is in the working collection, whichever
\* of its siblings failed.
BatchBarrier ==
  \A k \in 1..nsrc :
    k <= batchStart =>
      /\ \A j \in 1..nsrc : BatchIndex(j) <= BatchIndex(k) => Settled(j)
      /\ \A i \in 1..Len(src[k].value) :
           \E n \in 1..Len(allJobs) : allJobs[n] = src[k].value[i]

\* The first batch has been collected with a failed source and a sibling
\* that delivered, while a source of the second batch is still pending.
BatchBarrierWitness ==
  /\ pc = "fetching"
  /\ batchStart = batchSize
  /\ \E k \in 1..batchSize : src[k].outcome = "failed"
  /\ \E k \in 1..batchSize : src[k].value # <<>>
  /\ allJobs # <<>>
  /\ \E k \in 1..nsrc : k > batchSize /\ Pending(k)

\* C6: the working collection is the results in submission order, and for
\* every url the surviving listing is the first in submission order,
\* whatever the order in which the sources completed.
SubmissionOrderWins ==
  pc = "done" =>
    /\ allJobs = ResultsOf(1, nsrc)
    /\ \A i \in 1..Len(uniqueJobs) :
         Unscored(uniqueJobs[i])
           = FirstWithUrl(ResultsOf(1, nsrc), uniqueJobs[i].url)

\* A finished pass in which a source completed before an earlier-submitted
\* one, and two sources delivered the same url.
SubmissionOrderWitness ==
  /\ pc = "done"
  /\ outOfOrder
  /\ \E j, k \in 1..nsrc :
       /\ j < k
       /\ Urls(src[j].value) \cap Urls(src[k].value) # {}
       /\ src[j].value # src[k].value

\* C7: a started pass always returns a response.
PassTerminates == (pc = "fetching") ~> (pc = "done")

\* A pass in which no source stays in its body for ever does return.
PassTerminatesIfBodiesEnd ==
  ([]<>(\A k \in 1..NumSources : src[k].st # "body"))
    => ((pc = "fetching") ~> (pc = "done"))

\* Every listing of a response has its score within 0..100.
ReturnedScoresInRange ==
  \A i \in 1..Len(response.jobs) : response.jobs[i].match_score \in 0..100

WithTier(job, t) == [job EXCEPT !.company_tier = t]

\* C9: raising the tier from 3 to 2 or from 2 to 1 never lowers the score,
\* and appending a keyword never lowers it.
ScoreMonotone ==
  /\ \A t \in {2, 3} :
       calculateScore(WithTier(sjob, t - 1), skeywords, slocations, now)
         >= calculateScore(WithTier(sjob, t), skeywords, slocations, now)
  /\ \A i \in 1..Len(KeywordVocab) :
       calculateScore(sjob, Append(skeywords, KeywordVocab[i]), slocations, now)
         >= calculateScore(sjob, skeywords, slocations, now)

\* A tier-3 listing whose score rises with the tier, and whose keyword
\* bonus is saturated: one more matching keyword leaves the score as it is.
ScoreMonotoneWitness ==
  /\ sdone
  /\ sjob.company_tier = 3
  /\ sscore < 100
  /\ calculateScore(WithTier(sjob, 2), skeywords, slocations, now) > sscore
  /\ keywordScore(ToLowerCase(sjob.title), skeywords) >= 30
  /\ calculateScore(sjob, Append(skeywords, KeywordVocab[1]), slocations, now)
       = calculateScore(sjob, skeywords, slocations, now)

\* C10: two evaluations with the identical listing, keyword list and
\* location list return the identical score, whenever they are made.
ScoreIsPure ==
  [][(/\ sdone /\ sdone'
      /\ sjob' = sjob /\ skeywords' = skeywords /\ slocations' = slocations)
     => sscore' = sscore]_vars

\* ------------------------------------------------------------ the mixer
\* floor(k/10 * n), the quota of the tier-mix rule as a number.
Tenths(k, n) == (k * n) \div 10
Quota(t, n) == Tenths(IF t = 1 THEN 7 ELSE IF t = 2 THEN 2 ELSE 1, n)

\* The listing was posted within the 24 hours before the mix, or earlier.
Recent(job) == NumGt(GetTime(job.posted_at), mcutoff)
Older(job) == NumLe(GetTime(job.posted_at), mcutoff)
Positions(jobs, job) == {i \in 1..Len(jobs) : jobs[i] = job}

\* C11: when the N input listings hold at least floor(0.7N) tier-1,
\* floor(0.2N) tier-2 and floor(0.1N) tier-3 listings, the mixed set holds
\* exactly floor(0.7N) tier-1, floor(0.2N) tier-2 and floor(0.1N) tier-3
\* listings, all tier-1 listings first, then tier 2, then tier 3.
TierMixQuota ==
  (/\ mdone
   /\ \A t \in 1..3 : countTier(mjobs, t) >= Quota(t, Len(mjobs)))
  => /\ \A t \in 1..3 : countTier(mmixed, t) = Quota(t, Len(mjobs))
     /\ \A i, j \in 1..Len(mmixed) :
          i < j => mmixed[i].company_tier <= mmixed[j].company_tier

\* C12: the mixer selects from each tier exactly min(quota, available)
\* listings, the highest-scored ones of that tier, and nothing else: the
\* mixed set has the sum of the three minima as its length, and the input
\* [a: tier 1, b: tier 3] is mixed to [a].
NoBackfill ==
  mdone =>
    /\ \A t \in 1..3 :
         /\ countTier(mmixed, t) = Min(Quota(t, Len(mjobs)), countTier(mjobs, t))
         /\ \A i \in 1..Len(mmixed) : \A j \in 1..Len(mjobs) :
              (/\ mmixed[i].company_tier = t /\ mjobs[j].company_tier = t
               /\ Positions(mmixed, mjobs[j]) = {})
              => mmixed[i].match_score >= mjobs[j].match_score
    /\ \A i \in 1..Len(mmixed) :
         Positions(mjobs, mmixed[i]) # {} /\ Positions(mmixed, mmixed[i]) = {i}
    /\ Len(mmixed) = Min(Quota(1, Len(mjobs)), countTier(mjobs, 1))
                     + Min(Quota(2, Len(mjobs)), countTier(mjobs, 2))
                     + Min(Quota(3, Len(mjobs)), countTier(mjobs, 3))
    /\ (/\ Len(mjobs) = 2
        /\ mjobs[1].company_tier = 1 /\ mjobs[2].company_tier = 3)
       => mmixed = <<mjobs[1]>>

\* C13: the output is recent ++ older: every listing of the mixed set is in
\* the output exactly once whatever its posted_at, every listing posted
\* within the last 24 hours precedes every other one, and the recent
\* listings are in descending posted_at order.
RecencyPartition ==
  mdone =>
    /\ Len(mout) = Len(mmixed)
    /\ \A i \in 1..Len(mmixed) : Cardinality(Positions(mout, mmixed[i])) = 1
    /\ \A i, j \in 1..Len(mout) :
         (Recent(mout[i]) /\ ~Recent(mout[j])) => i < j
    /\ \A i, j \in 1..Len(mout) :
         (i < j /\ Recent(mout[i]) /\ Recent(mout[j]))
         => mout[i].posted_at.ms >= mout[j].posted_at.ms

\* C14: among the output's listings older than 24 hours, tier 1 precedes
\* tier 2, which precedes tier 3, and within one tier the match_score never
\* increases.
OlderTierGrouped ==
  mdone =>
    \A i, j \in 1..Len(mout) :
      (i < j /\ Older(mout[i]) /\ Older(mout[j]))
      => /\ mout[i].company_tier <= mout[j].company_tier
         /\ mout[i].company_tier = mout[j].company_tier
            => mout[i].match_score >= mout[j].match_score

\* An output that starts with a recent listing and whose older part holds
\* two tier-1 listings of different scores, a tier-2 and a tier-3 listing.
OlderTierGroupedWitness ==
  /\ mdone
  /\ Len(mout) > 0 /\ Recent(mout[1])
  /\ \E i, j \in 1..Len(mout) :
       /\ i < j /\ Older(mout[i]) /\ Older(mout[j])
       /\ mout[i].company_tier = 1 /\ mout[j].company_tier = 1
       /\ mout[i].match_score > mout[j].match_score
  /\ \A t \in {2, 3} : \E i \in 1..Len(mout) :
       Older(mout[i]) /\ mout[i].company_tier = t

\* ------------------------------------------------------ the feed service
\* The response is a "not modified" answer, or carries the listings.
Answered == fresp.status \in {200, 304}
IsNotModified == fresp.status = 304 /\ ~fresp.hasBody /\ fresp.jobs = <<>>

\* The tier of a row as the variant in use reports it.
ReportedTier(row) ==
  IF variant = 1 THEN getCompanyTier(row.company) ELSE row.company_tier
\* The request's tier filter is one of 1, 2, 3.
ValidTier == freq.tier \in {<<"1">>, <<"2">>, <<"3">>}
BadTier == freq.tier # <<>> /\ ~ValidTier
\* The row matches the request: owner, since, company and tier filter.
Matches(row) ==
  /\ variant = 1 => row.user_id = freq.auth
  /\ freq.since # NoDate => row.created_at.ms > freq.since.ms
  /\ freq.company # <<>> => ilike(row.company, freq.company)
  /\ freq.tier # <<>> => (ValidTier /\ <<Digits[ReportedTier(row) + 1]>> = freq.tier)

\* The response carries the full body: listings of the table that pass the
\* filters, annotated with their tier, no more than a page of them, with
\* the tier counts of these listings and with hasMore = offset + limit < total.
FullBody ==
  /\ fresp.status = 200 /\ fresp.hasBody
  /\ Len(fresp.jobs) <= feedLimit(freq.limit).ms
  /\ \A i \in 1..Len(fresp.jobs) :
       /\ fresp.jobs[i].company_tier \in {1, 2, 3}
       /\ ValidTier => <<Digits[fresp.jobs[i].company_tier + 1]>> = freq.tier
       /\ ~changed =>
            \E row \in table :
              /\ row.id = fresp.jobs[i].id
              /\ fresp.jobs[i].company_tier = ReportedTier(row)
              /\ BadTier \/ Matches(row)
  /\ \A t \in 1..3 :
       (IF t = 1 THEN fresp.stats.tier1 ELSE IF t = 2 THEN fresp.stats.tier2
        ELSE fresp.stats.tier3) = countTier(fresp.jobs, t)
  /\ fresp.hasMore
       <=> feedOffset(freq.offset).ms + feedLimit(freq.limit).ms < fresp.total

\* C15: a query that repeats the previous one, presents the token that one
\* returned and finds the table as that one left it, is answered "not
\* modified" without a body - whatever the table holds and whatever the
\* parameters are.
ConditionalFetch == (repeated /\ Answered) => IsNotModified

\* C16 as stated: an answered query is "not modified" without a body if
\* the presented token equals the current one, and carries the full body
\* in every other case.
NotModifiedOnlyOnToken ==
  Answered =>
    IF freq.ifNoneMatch = fresp.etag THEN IsNotModified ELSE FullBody

\* The If-Modified-Since header is honoured: it is present, the request has
\* no since parameter, and both dates parse with Last-Modified <= header.
HonoursModifiedSince ==
  /\ freq.ifModifiedSince # NoDate /\ freq.since = NoDate
  /\ freq.ifModifiedSince.valid /\ fresp.lastModified.valid
  /\ fresp.lastModified.ms <= freq.ifModifiedSince.ms

\* C16, amended: an answered query is "not modified" without a body if the
\* presented token equals the current one or the If-Modified-Since header
\* is honoured, and carries the full body in every other case.
NotModifiedOrFullBody ==
  Answered =>
    IF freq.ifNoneMatch = fresp.etag \/ HonoursModifiedSince
      THEN IsNotModified ELSE FullBody

\* Both answers occur on a table with rows: here the token of a page that
\* holds a row was presented again and answered "not modified".
NotModifiedWitness ==
  /\ IsNotModified
  /\ freq.ifNoneMatch = fresp.etag
  /\ fresp.etag.count > 0
  /\ ~HonoursModifiedSince

\* C17: in a full response, total is the number of listings that match the
\* request before pagination, and hasMore holds exactly when offset + limit
\* < total, limit being the capped page size.
HasMoreIffBeyondPage ==
  (fresp.status = 200 /\ ~changed) =>
    /\ fresp.total = Cardinality({row \in table : Matches(row)})
    /\ fresp.hasMore
         <=> feedOffset(freq.offset).ms + feedLimit(freq.limit).ms
               < Cardinality({row \in table : Matches(row)})

\* C18: whatever limit and offset a request carries, the effective page
\* size is a number of at most 100, the effective offset is a number >= 0,
\* and the response holds at most 100 listings.
PageWithinBounds ==
  fresp.status # 0 =>
    /\ feedLimit(freq.limit).valid /\ feedLimit(freq.limit).ms <= 100
    /\ feedOffset(freq.offset).valid /\ feedOffset(freq.offset).ms >= 0
    /\ Len(fresp.jobs) <= 100

\* C19: a query that fails, through a store error or a tier filter other
\* than 1, 2, 3, is answered with an error status and a message, never with
\* a successful response that holds no listings.
FailureIsStructuredError ==
  (fresp.status # 0 /\ (failed \/ BadTier)) =>
    /\ fresp.status >= 400 /\ fresp.error # ""
    /\ ~(fresp.status = 200 /\ fresp.jobs = <<>>)

\* The existing-URL read or the insert of the finished pass returned an
\* error or raised.
PersistenceFailed ==
  /\ pc = "done"
  /\ saved.read \in {"error", "throws"} \/ saved.insert \in {"error", "throws"}

\* C20: when the existing-URL read or the insert fails (returns an error or
\* raises) in the pass of a signed-in caller, the response is still the
\* successful one and carries the page of scored and mixed listings.
PersistenceFailureKeepsListings ==
  PersistenceFailed =>
    /\ response.status = 200 /\ response.success
    /\ response.jobs # <<>>
    /\ \A i \in 1..Len(response.jobs) :
         \E j \in 1..Len(uniqueJobs) : response.jobs[i] = uniqueJobs[j]

\* No two rows of the jobs table have the same owner and the same url.
NoDuplicateRows ==
  \A i, j \in 1..Len(jobsTable) : i # j => jobsTable[i] # jobsTable[j]

\* C21: as long as no two passes have overlapped in time, the jobs table
\* holds at most one row per (owner, url).
SequentialPassesStoreOnce ==
  ~overlapped => NoDuplicateRows

\* C22: the read and the insert of a pass are separate steps, so with every
\* store call succeeding a duplicate (owner, url) arises, and arises only,
\* when two passes have overlapped in time.
DuplicateOnlyByRace ==
  (~faulted /\ ~NoDuplicateRows) => overlapped

\* Two passes of one owner both read before either inserted, and both
\* inserted the same url, with no store call failing.
RaceDoubleInsert ==
  /\ overlapped /\ ~faulted
  /\ \E i, j \in 1..Len(jobsTable) : i # j /\ jobsTable[i] = jobsTable[j]
  /\ \A p \in Savers : saver[p].pc = "done" /\ saver[p].status = 200

\* The time elapsed from tposted to the call, in milliseconds.
Elapsed == tclock - tposted.ms

\* The description the buckets prescribe for an elapsed time.
Bucket(elapsed) ==
  IF elapsed < 60 * MinuteMs THEN [n |-> elapsed \div MinuteMs, unit |-> " min ago"]
  ELSE IF elapsed < 24 * HourMs THEN [n |-> elapsed \div HourMs, unit |-> "h ago"]
  ELSE IF elapsed < 7 * DayMs THEN [n |-> elapsed \div DayMs, unit |-> "d ago"]
  ELSE [n |-> elapsed \div (7 * DayMs), unit |-> "w ago"]

\* C23: for a listing posted at a time, getTimeDelta is "N min ago" with N
\* the whole minutes elapsed under 60 minutes, "Nh ago" with the whole hours
\* under 24 hours, "Nd ago" with the whole days under 7 days, "Nw ago" with
\* the whole weeks otherwise; 5 minutes give "5 min ago", 25 hours "1d ago",
\* 10 days "1w ago".
RecencyBuckets ==
  (tdone /\ tposted.valid) =>
    /\ tdelta = Bucket(Elapsed)
    /\ Elapsed = 5 * MinuteMs => tdelta = [n |-> 5, unit |-> " min ago"]
    /\ Elapsed = 25 * HourMs => tdelta = [n |-> 1, unit |-> "d ago"]
    /\ Elapsed = 10 * DayMs => tdelta = [n |-> 1, unit |-> "w ago"]

\* The three worked examples have been described, here the second: a
\* listing posted 25 hours before the call is "1d ago".
RecencyBucketsWitness ==
  /\ tdone /\ tposted.valid
  /\ Elapsed = 25 * HourMs
  /\ tdelta = [n |-> 1, unit |-> "d ago"]

\* C24: in a full feed response, stats has the fields tier1, tier2, tier3 and
\* total; tierK is the number of returned listings of tier K, and total is
\* their sum and the number of listings returned.
TierStatsOfResponse ==
  fresp.status = 200 =>
    /\ fresp.stats.tier1 = countTier(fresp.jobs, 1)
    /\ fresp.stats.tier2 = countTier(fresp.jobs, 2)
    /\ fresp.stats.tier3 = countTier(fresp.jobs, 3)
    /\ fresp.stats.total
         = fresp.stats.tier1 + fresp.stats.tier2 + fresp.stats.tier3
    /\ fresp.stats.total = Len(fresp.jobs)

\* The words of the score rule, on the harness inputs: the text searched
\* for keywords, the keywords present in it, and the four boni.
ScoredText ==
  ToLowerCase(sjob.title \o <<" ">> \o sjob.snippet \o <<" ">>
              \o JoinSpace(sjob.requirements))
KeywordsPresent ==
  Cardinality({i \in 1..Len(skeywords) :
                 /\ skeywords[i] # <<>>
                 /\ Includes(ScoredText, ToLowerCase(skeywords[i]))})
TierBonus ==
  CASE sjob.company_tier = 1 -> 20 [] sjob.company_tier = 2 -> 10
    [] sjob.company_tier = 3 -> 5
KeywordBonus == Min(30, 5 * KeywordsPresent)
LocationBonus ==
  IF \E w \in {<<"d", "u", "b", "l", "i", "n">>, <<"i", "r", "e", "l", "a", "n", "d">>,
               <<"r", "e", "m", "o", "t", "e">>} :
       Includes(ToLowerCase(sjob.location), w)
    THEN 15
  ELSE IF \E i \in 1..Len(slocations) :
            Includes(ToLowerCase(sjob.location), ToLowerCase(slocations[i]))
    THEN 5
  ELSE 0
\* Posted within the last hour, or the last 24 hours, before clock: less
\* than that time has elapsed since posted_at.
RecencyBonus(clock) ==
  IF sjob.posted_at.valid /\ clock - sjob.posted_at.ms < HourMs THEN 10
  ELSE IF sjob.posted_at.valid /\ clock - sjob.posted_at.ms < DayMs THEN 5
  ELSE 0

\* C25: calculateScore is min(100, 50 + tier bonus (20, 10, 5) + keyword
\* bonus (5 per keyword of the list present in the text, at most 30)
\* + location bonus (15 for dublin, ireland or remote, otherwise 5 for a
\* caller-supplied location, otherwise 0) + recency bonus (10 within the
\* last hour, otherwise 5 within the last 24 hours, otherwise 0)).
ScoreIsSumOfBoni ==
  /\ calculateScore(sjob, skeywords, slocations, now)
       = Min(100, 50 + TierBonus + KeywordBonus + LocationBonus + RecencyBonus(now))
  /\ LocationBonus \in {0, 5, 15}

\* An evaluation below the clamp whose keyword bonus is capped at 30, whose
\* location bonus is the 5 of a caller-supplied location and whose recency
\* bonus is the 5 of the last 24 hours.
ScoreIsSumOfBoniWitness ==
  /\ sdone
  /\ sscore = calculateScore(sjob, skeywords, slocations, now)
  /\ sscore = 95
  /\ sjob.company_tier = 3
  /\ KeywordsPresent > 6
  /\ LocationBonus = 5
  /\ RecencyBonus(now) = 5

\* C26: a query that presents the token or the Last-Modified date of the
\* previous response to the same query, after the collection matching the
\* query has changed, is not answered "not modified": it receives the full
\* response.
FreshTokenSound ==
  (stale /\ Answered) => (fresp.status = 200 /\ fresp.hasBody)

\* The list holds a listing of tier 1.
HasTierOne(jobs) == \E i \in 1..Len(jobs) : jobs[i].company_tier = 1

HookJobsUniqueIds ==
  \A i, j \in 1..Len(hjobs) : i # j => hjobs[i].id # hjobs[j].id

\* stats with d added to the count of tier t and to total.
StatsMoved(stats, t, d) ==
  [ tier1 |-> stats.tier1 + (IF t = 1 THEN d ELSE 0),
    tier2 |-> stats.tier2 + (IF t = 2 THEN d ELSE 0),
    tier3 |-> stats.tier3 + (IF t = 3 THEN d ELSE 0),
    total |-> stats.total + d ]

\* The tiers under which the list holds the job with this id.
ListedTiers(id) ==
  {hjobs[i].company_tier : i \in {j \in 1..Len(hjobs) : hjobs[j].id = id}}

\* C29: stats.total = tier1 + tier2 + tier3 after every step; the INSERT event
\* adds one to the tier of its job and to total, the DELETE event removes
\* one from the tier of its job and from total, and the UPDATE event that
\* changes the tier of a listed job moves one from the old tier to the new.
HookStatsConsistent ==
  [][/\ hstats'.total = hstats'.tier1 + hstats'.tier2 + hstats'.tier3
     /\ (hevents # <<>> /\ hevents' = Tail(hevents)) =>
          CASE Head(hevents).eventType = "INSERT" ->
                 hstats' = StatsMoved(hstats, Head(hevents).job.company_tier, 1)
            [] Head(hevents).eventType = "DELETE" ->
                 hstats' = StatsMoved(hstats, Head(hevents).job.company_tier, 0 - 1)
            [] Head(hevents).eventType = "UPDATE" ->
                 \A old \in ListedTiers(Head(hevents).job.id) :
                   hstats' = StatsMoved(StatsMoved(hstats, old, 0 - 1),
                                        Head(hevents).job.company_tier, 1)]_vars

\* The jobs of a list of results, in their order.
ResultJobs(results) == [i \in 1..Len(results) |-> results[i].job]

\* C30: at most one queue processor is active at any time; the results of
\* the run hold jobs of that run only, none of them twice; and a run that
\* completes reports exactly one result for each of its jobs.
SingleQueueProcessor ==
  /\ Len(bprocs) <= 1
  /\ \A i \in 1..Len(bulkApplyState.results) :
       /\ \E j \in 1..Len(bulkApplyState.jobs) :
            bulkApplyState.results[i].job = bulkApplyState.jobs[j]
       /\ \A j \in 1..Len(bulkApplyState.results) :
            i # j => bulkApplyState.results[i].job # bulkApplyState.results[j].job
  /\ \A m \in bsent : ResultJobs(m.results) = m.jobs

====
